---- MODULE Spec2Model ----
(***************************************************************************)
(* Model of the hierarchical Excel ingestion of the pharma dashboard:      *)
(* process_excel_hierarchy.py (row classification, forward fill, melt),    *)
(* data_processing.py (per-file load, team-folder assembly, display        *)
(* preparation) and create_master_data.py (master CSV assembly).           *)
(*                                                                         *)
(* A text is a sequence of one-character strings, so that the string       *)
(* tests of the code (startswith, regular expressions, split, isupper,     *)
(* replace) are computed character by character.                           *)
(***************************************************************************)
EXTENDS Integers, Sequences, FiniteSets, TLC

VARIABLES
    sheet,      \* the Excel sheet being read: [header, rows]
    melted,     \* what process_pharma_excel returned for the sheet
    pc,         \* position of the single-file pipeline
    label,      \* the label handed to the row classifiers
    verdict,    \* what each classifier of the repository answered for label
    dirs,       \* data directory: folder -> file name -> sheet (or NoFile)
    table,      \* result of load_data (load_all_excel_files + prepare_data_for_display)
    master,     \* result of create_master_data
    uploads,    \* number of files written into the data directory so far
    report,     \* what the analytics function last called returned
    store       \* what outlives a page load: caches, snapshot files, the visit log

vars == <<sheet, melted, pc, label, verdict, dirs, table, master, uploads, report, store>>

(***************************************************************************)
(* Bounds of the model.                                                    *)
(***************************************************************************)
MaxRows == 4
MaxMeltRows == 3
MaxTokens == 2
MaxUploads == 2

(***************************************************************************)
(* Characters and Python's string operations.                              *)
(***************************************************************************)
UpperCh == {"A","B","C","D","E","F","G","H","I","J","K","L","M",
            "N","O","P","Q","R","S","T","U","V","W","X","Y","Z"}
LowerCh == {"a","b","c","d","e","f","g","h","i","j","k","l","m",
            "n","o","p","q","r","s","t","u","v","w","x","y","z"}
DigitCh == {"0","1","2","3","4","5","6","7","8","9"}
SpaceCh == {" "}

\* The value pandas holds for a missing cell. It is a text of one
\* pseudo-character, so that it compares with every other text.
NaN == <<"<NaN>">>

\* str(x) / Series.astype(str): a missing cell becomes the text "nan".
AsStr(x) == IF x = NaN THEN <<"n","a","n">> ELSE x

\* A measure cell as pd.read_excel gives it: a number, a text, or a missing
\* cell (NaN as its text).
Num(n) == [num |-> TRUE, v |-> n, s |-> <<>>]
Txt(t) == [num |-> FALSE, v |-> 0, s |-> t]
Blank == Txt(NaN)

\* Series.notna() on a measure.
notna(x) == x # Blank

\* The number a text of decimal digits (with an optional sign) denotes.
DIGITS == <<"0","1","2","3","4","5","6","7","8","9">>
DigitVal(c) == (CHOOSE d \in 1..10 : DIGITS[d] = c) - 1
RECURSIVE ParseDigits(_)
ParseDigits(t) ==
    IF t = <<>> THEN 0 ELSE 10 * ParseDigits(SubSeq(t, 1, Len(t) - 1)) + DigitVal(t[Len(t)])
IsDigits(t) == t # <<>> /\ \A i \in 1..Len(t) : t[i] \in DigitCh

\* pd.to_numeric(errors="coerce") on one measure: a number stays, a text is
\* parsed as a number when it is one and becomes NaN otherwise.
to_numeric(x) ==
    IF x.num THEN x
    ELSE IF IsDigits(x.s) THEN Num(ParseDigits(x.s))
    ELSE IF Len(x.s) > 1 /\ x.s[1] = "-" /\ IsDigits(Tail(x.s)) THEN Num(0 - ParseDigits(Tail(x.s)))
    ELSE Blank

StartsWith(s, p) == Len(s) >= Len(p) /\ SubSeq(s, 1, Len(p)) = p

\* sub in s
Contains(s, sub) ==
    \E i \in 1..(Len(s) - Len(sub) + 1) : SubSeq(s, i, i + Len(sub) - 1) = sub

RECURSIVE LStrip(_)
LStrip(s) == IF s # <<>> /\ Head(s) \in SpaceCh THEN LStrip(Tail(s)) ELSE s

RECURSIVE RStrip(_)
RStrip(s) ==
    IF s # <<>> /\ s[Len(s)] \in SpaceCh THEN RStrip(SubSeq(s, 1, Len(s) - 1)) ELSE s

\* str.strip()
Strip(s) == RStrip(LStrip(s))

\* The first whitespace-delimited word of a text that starts with a non-space.
RECURSIVE FirstWord(_)
FirstWord(s) ==
    IF s = <<>> \/ Head(s) \in SpaceCh THEN <<>> ELSE <<Head(s)>> \o FirstWord(Tail(s))

\* str.split(): the words between runs of whitespace.
RECURSIVE Split(_)
Split(s) ==
    LET t == LStrip(s)
        w == FirstWord(t)
    IN  IF t = <<>> THEN <<>>
        ELSE <<w>> \o Split(SubSeq(t, Len(w) + 1, Len(t)))

\* str.isupper(): some cased character, and no lower-case one.
IsUpper(s) ==
    /\ \E i \in 1..Len(s) : s[i] \in UpperCh
    /\ \A i \in 1..Len(s) : s[i] \notin LowerCh

\* str.replace(sub, ""): every leftmost non-overlapping occurrence removed.
RECURSIVE RemoveAll(_, _)
RemoveAll(s, sub) ==
    IF s = <<>> THEN <<>>
    ELSE IF StartsWith(s, sub) THEN RemoveAll(SubSeq(s, Len(sub) + 1, Len(s)), sub)
    ELSE <<Head(s)>> \o RemoveAll(Tail(s), sub)

\* The texts the model needs, spelled out.
W_Region == <<"R","e","g","i","o","n">>
W_Units  == <<"U","n","i","t","s">>
SP       == <<" ">>


(***************************************************************************)
(* Labels of column A and column headers used as inputs.                   *)
(***************************************************************************)
L_RegionSofia == <<"R","e","g","i","o","n"," ","S","O","F","I","A">>
L_RegionVarna == <<"R","e","g","i","o","n"," ","V","A","R","N","A">>
L_District    == <<"(","P","H",")"," ","B","A","N","S","K","O">>
L_Category    == <<"R","0","6","A","0"," ","A","H">>
L_Aerius      == <<"A","E","R","I","U","S"," ","5","M","G">>
L_Zyrtec      == <<"Z","Y","R","T","E","C">>
L_GrandTotal  == <<"G","R","A","N","D"," ","T","O","T","A","L">>
L_Total       == <<"T","o","t","a","l">>

H_Q1      == <<"Q","1"," ","2","0","2","4">>
H_Q2      == <<"Q","2"," ","2","0","2","4">>
H_Q1Units == <<"Q","1"," ","2","0","2","4"," ","U","n","i","t","s">>
H_Q2Units == <<"Q","2"," ","2","0","2","4"," ","U","n","i","t","s">>
H_Jan     == <<"J","a","n"," ","2","0","2","4">>
H_Feb     == <<"F","e","b"," ","2","0","2","4">>
H_Notes   == <<"N","o","t","e","s">>

(***************************************************************************)
(* process_excel_hierarchy.py                                              *)
(***************************************************************************)
VALID_YEARS == << <<"2","0","2","3">>, <<"2","0","2","4">>,
                  <<"2","0","2","5">>, <<"2","0","2","6">> >>
MONTH_NAMES == << <<"J","a","n">>, <<"F","e","b">>, <<"M","a","r">>, <<"A","p","r">>,
                  <<"M","a","y">>, <<"J","u","n">>, <<"J","u","l">>, <<"A","u","g">>,
                  <<"S","e","p">>, <<"O","c","t">>, <<"N","o","v">>, <<"D","e","c">> >>

\* Number of columns after column A that the fallback of _detect_period_columns takes.
FallbackColumns == 12

\* The positions 1..n.
Positions(n) == [i \in 1..n |-> i]

\* _detect_period_columns: the positions (within header, the columns after
\* column A) of the period columns, in header order.
detect_period_columns(header) ==
    LET isQuarter(i) == /\ Contains(header[i], <<"Q">>)
                        /\ \E y \in 1..Len(VALID_YEARS) : Contains(header[i], VALID_YEARS[y])
        isMonth(i)   == \E m \in 1..Len(MONTH_NAMES) : Contains(header[i], MONTH_NAMES[m])
        quarter_cols == SelectSeq(Positions(Len(header)), isQuarter)
        month_cols   == SelectSeq(Positions(Len(header)), isMonth)
        firstCols(i) == i <= FallbackColumns
    IN  IF quarter_cols # <<>> THEN quarter_cols
        ELSE IF month_cols # <<>> THEN month_cols
        ELSE SelectSeq(Positions(Len(header)), firstCols)

\* _identify_row_types, one label at a time (the masks are element-wise).
is_region(x) == StartsWith(x, W_Region \o SP)

is_district(x) ==
    /\ Len(x) >= 5
    /\ x[1] = "(" /\ x[2] \in UpperCh /\ x[3] \in UpperCh /\ x[4] = ")"
    /\ x[5] \in SpaceCh

is_category(x) ==
    /\ Len(x) >= 6
    /\ x[1] \in UpperCh /\ x[2] \in DigitCh /\ x[3] \in DigitCh
    /\ x[4] \in UpperCh /\ x[5] \in DigitCh
    /\ x[6] \in SpaceCh

is_drug(x) == ~is_region(x) /\ ~is_district(x) /\ ~is_category(x)

\* The role _identify_row_types gives a label of column A.
RowRole(x) ==
    IF is_region(x) THEN "Region"
    ELSE IF is_district(x) THEN "District"
    ELSE IF is_category(x) THEN "Category"
    ELSE "Drug"

\* Series.ffill(): every NaN takes the last value above it that is not NaN.
ffill_none(col) == col
ffill(col) ==
    LET RECURSIVE At(_)
        At(i) == IF col[i] # NaN THEN col[i]
                 ELSE IF i = 1 THEN NaN ELSE At(i - 1)
    IN  [i \in 1..Len(col) |-> At(i)]

\* Column A as the code reads it: df["col_a"].astype(str).str.strip()
ColA(rows) == [i \in 1..Len(rows) |-> Strip(AsStr(rows[i].col_a))]

\* _fill_hierarchy: the frame with the columns Region, District, Drug_Name.
fill_hierarchy(rows) ==
    LET col_a    == ColA(rows)
        \* col_a.where(mask): the label where the mask holds, NaN elsewhere
        Region   == ffill([i \in 1..Len(rows) |->
                               IF is_region(col_a[i]) THEN col_a[i] ELSE NaN])
        District == ffill([i \in 1..Len(rows) |->
                               IF is_district(col_a[i]) THEN col_a[i] ELSE NaN])
        Drug     == ffill([i \in 1..Len(rows) |->
                               IF is_drug(col_a[i]) \/ is_category(col_a[i])
                               THEN col_a[i] ELSE NaN])
    IN  [i \in 1..Len(rows) |->
            [col_a |-> col_a[i], cells |-> rows[i].cells,
             Region |-> Region[i], District |-> District[i], Drug_Name |-> Drug[i]]]

\* Step 8 of process_pharma_excel: the rows kept as data rows.
keep_row_drug_only(x) == is_drug(x)
keep_row(x) == is_drug(x) \/ is_category(x)

\* Step 11: a trailing " Units" is removed from the period label, then strip().
clean_period(h) ==
    LET n == Len(h)
        hasSuffix == /\ n >= Len(W_Units) + 1
                     /\ SubSeq(h, n - Len(W_Units) + 1, n) = W_Units
                     /\ h[n - Len(W_Units)] \in SpaceCh
    IN  IF hasSuffix THEN Strip(RStrip(SubSeq(h, 1, n - Len(W_Units))))
        ELSE Strip(h)

\* pd.melt: one long row per (row of the frame, value column), column by column.
melt_first_column_only(frame, header, value_vars) ==
    [k \in 1..Len(frame) |->
        [Region |-> frame[k].Region, District |-> frame[k].District,
         Drug_Name |-> frame[k].Drug_Name,
         Quarter |-> clean_period(header[value_vars[1]]),
         Units |-> frame[k].cells[value_vars[1]]]]
melt(frame, header, value_vars) ==
    LET n == Len(frame)
    IN  [k \in 1..(n * Len(value_vars)) |->
            LET c == value_vars[((k - 1) \div n) + 1]
                r == frame[((k - 1) % n) + 1]
            IN  [Region |-> r.Region, District |-> r.District,
                 Drug_Name |-> r.Drug_Name,
                 Quarter |-> clean_period(header[c]),
                 Units |-> r.cells[c]]]

\* process_pharma_excel: [ok |-> FALSE] stands for ExcelProcessingError.
process_pharma_excel(sh) ==
    LET period_cols == detect_period_columns(sh.header)
        frame       == fill_hierarchy(sh.rows)
        kept(r)     == keep_row(r.col_a)
        df_clean    == SelectSeq(frame, kept)
    IN  IF sh.rows = <<>> \/ period_cols = <<>>
        THEN [ok |-> FALSE, rows |-> <<>>]
        ELSE [ok |-> TRUE, rows |-> melt(df_clean, sh.header, period_cols)]

\* The District column is dropped when no kept row has a district.
HasColumnDistrict(rows) == \E i \in 1..Len(rows) : rows[i].District # NaN

(***************************************************************************)
(* Files of the data directory.                                            *)
(***************************************************************************)
F_TotalQ == <<"A"," ","T","o","t","a","l"," ","Q",".","x","l","s","x">>
F_Total  == <<"A"," ","T","o","t","a","l",".","x","l","s","x">>
F_Other  == <<"B",".","x","l","s">>
FileNames == {F_TotalQ, F_Total, F_Other}

X_xlsx == <<".","x","l","s","x">>
X_xls  == <<".","x","l","s">>
TEMP_FILE_PREFIX == <<".","~">>
SOURCE_SUFFIXES == << <<" ","T","o","t","a","l"," ","Q">>, <<" ","T","o","t","a","l">>, <<" ","t","o","t","a","l">>, <<"_","m","e","l","t","e","d">> >>

\* config.TEAM_FOLDERS, and the data directory itself.
TEAM_1 == <<"T","e","a","m"," ","1">>
TEAM_2 == <<"T","e","a","m"," ","2">>
TEAM_3 == <<"T","e","a","m"," ","3">>
TEAM_FOLDERS == <<TEAM_1, TEAM_2, TEAM_3>>
Root == <<"d","a","t","a">>
Folders == {TEAM_FOLDERS[i] : i \in 1..Len(TEAM_FOLDERS)} \cup {Root}

\* The characters of file names in the order of their code points.
CODE_POINTS == <<" ","(",")",".","0","1","2","3","4","5","6","7","8","9","A","B","C","D","E","F","G","H","I","J","K","L","M","N","O","P","Q","R","S","T","U","V","W","X","Y","Z","_","a","b","c","d","e","f","g","h","i","j","k","l","m","n","o","p","q","r","s","t","u","v","w","x","y","z","~">>
Ord(c) == CHOOSE i \in 1..Len(CODE_POINTS) : CODE_POINTS[i] = c

\* a < b for Python strings.
RECURSIVE TextLess(_, _)
TextLess(a, b) ==
    IF a = <<>> THEN b # <<>>
    ELSE IF b = <<>> THEN FALSE
    ELSE IF Head(a) = Head(b) THEN TextLess(Tail(a), Tail(b))
    ELSE Ord(Head(a)) < Ord(Head(b))

\* sorted(names)
RECURSIVE Sorted(_)
Sorted(S) ==
    IF S = {} THEN <<>>
    ELSE LET m == CHOOSE x \in S : \A y \in S \ {x} : TextLess(x, y)
         IN  <<m>> \o Sorted(S \ {m})

EndsWith(s, p) == Len(s) >= Len(p) /\ SubSeq(s, Len(s) - Len(p) + 1, Len(s)) = p

\* Path(filename).stem: the name without its last suffix.
Stem(name) ==
    LET dots == {i \in 2..Len(name) : name[i] = "."}
    IN  IF dots = {} THEN name
        ELSE SubSeq(name, 1, (CHOOSE i \in dots : \A j \in dots : j <= i) - 1)

(***************************************************************************)
(* data_processing.py                                                      *)
(***************************************************************************)
\* extract_source_name: the stem with the known suffixes removed, stripped.
extract_source_name(filename) ==
    LET RECURSIVE Go(_, _)
        Go(name, k) == IF k > Len(SOURCE_SUFFIXES) THEN name
                       ELSE Go(RemoveAll(name, SOURCE_SUFFIXES[k]), k + 1)
    IN  Strip(Go(Stem(filename), 1))

\* A frame row gets Source and Team; a frame without a Team column holds NaN.
Tagged(rows, source, team) ==
    [k \in 1..Len(rows) |->
        [Region |-> rows[k].Region, District |-> rows[k].District,
         Drug_Name |-> rows[k].Drug_Name, Quarter |-> rows[k].Quarter,
         Units |-> rows[k].Units, Source |-> source, Team |-> team]]

\* load_single_excel: the frame of one file with its Source, or None (ok = FALSE)
\* when processing raised or validate_dataframe found the frame empty.
load_single_excel(filename, sh) ==
    LET df == process_pharma_excel(sh)
    IN  IF ~df.ok \/ df.rows = <<>> THEN [ok |-> FALSE, rows |-> <<>>]
        ELSE [ok |-> TRUE, rows |-> Tagged(df.rows, extract_source_name(filename), NaN)]

\* The names glob(pattern) finds in a folder.
Glob(folder, ext) == {n \in FileNames : folder[n].exists /\ EndsWith(n, ext)}

RECURSIVE ConcatAll(_)
ConcatAll(frames) ==
    IF frames = <<>> THEN <<>> ELSE Head(frames) \o ConcatAll(Tail(frames))

\* The frames of the files named by names (in that order) of a folder.
FramesOf_abort(folder, names, team) ==
    LET loaded(n) == load_single_excel(n, folder[n].sheet)
    IN  IF \E k \in 1..Len(names) : ~loaded(names[k]).ok THEN <<>>
        ELSE [k \in 1..Len(names) |->
                 Tagged(loaded(names[k]).rows, extract_source_name(names[k]), team)]
FramesOf(folder, names, team) ==
    LET loaded(n) == load_single_excel(n, folder[n].sheet)
        RECURSIVE Go(_)
        Go(k) == IF k > Len(names) THEN <<>>
                 ELSE (IF StartsWith(names[k], TEMP_FILE_PREFIX) \/ ~loaded(names[k]).ok
                       THEN <<>>
                       ELSE << Tagged(loaded(names[k]).rows,
                                      extract_source_name(names[k]), team) >>)
                      \o Go(k + 1)
    IN  Go(1)

\* pd.read_csv of master_data.csv: an empty field and the text "nan" both read as NaN.
ReadCsvText(x) == IF x = <<"n","a","n">> \/ x = <<>> THEN NaN ELSE x
ReadCsv(rows) ==
    [k \in 1..Len(rows) |->
        [Region |-> ReadCsvText(rows[k].Region), District |-> ReadCsvText(rows[k].District),
         Drug_Name |-> ReadCsvText(rows[k].Drug_Name), Quarter |-> ReadCsvText(rows[k].Quarter),
         Units |-> rows[k].Units, Source |-> ReadCsvText(rows[k].Source), Team |-> NaN]]

\* load_all_excel_files: team folders first, then master_data.csv, then the
\* Excel files of the data directory itself.
load_all_excel_files(d, csv) ==
    LET teamFrames ==
            LET RECURSIVE Go(_)
                Go(t) == IF t > Len(TEAM_FOLDERS) THEN <<>>
                         ELSE FramesOf(d[TEAM_FOLDERS[t]],
                                       Sorted(Glob(d[TEAM_FOLDERS[t]], X_xlsx)), TEAM_FOLDERS[t])
                              \o FramesOf(d[TEAM_FOLDERS[t]],
                                          Sorted(Glob(d[TEAM_FOLDERS[t]], X_xls)), TEAM_FOLDERS[t])
                              \o Go(t + 1)
            IN  Go(1)
        rootFrames ==
            FramesOf(d[Root], Sorted(Glob(d[Root], X_xlsx) \cup Glob(d[Root], X_xls)), NaN)
    IN  IF teamFrames # <<>> THEN ConcatAll(teamFrames)
        ELSE IF csv.exists THEN ReadCsv(csv.rows)
        ELSE ConcatAll(rootFrames)

\* Region of prepare_data_for_display: astype(str), "^Region\s+" removed, strip().
normalize_region_keep(x) == Strip(AsStr(x))
normalize_region(x) ==
    LET s == AsStr(x)
        n == Len(W_Region)
    IN  IF StartsWith(s, W_Region) /\ Len(s) > n /\ s[n + 1] \in SpaceCh
        THEN Strip(SubSeq(s, n + 1, Len(s)))
        ELSE Strip(s)

\* prepare_data_for_display: Region normalised; Units made numeric and the rows
\* without Units dropped.
prepare_data_for_display(df) ==
    LET conv == [k \in 1..Len(df) |->
                    [df[k] EXCEPT !.Region = normalize_region(@),
                                  !.Units = to_numeric(@)]]
        hasUnits(r) == notna(r.Units)
    IN  SelectSeq(conv, hasUnits)

\* load_data without the Parquet snapshot.
load_data(d, csv) == prepare_data_for_display(load_all_excel_files(d, csv))

(***************************************************************************)
(* create_master_data.py                                                   *)
(***************************************************************************)
TEMP_FILE_PREFIX_OFFICE == <<"~","$">>

\* DataFrame.drop_duplicates(subset, keep="first") of robust_clean_excel.
DedupKey(r, withDistrict) ==
    <<r.Region, r.Drug_Name, r.Source, r.Quarter, IF withDistrict THEN r.District ELSE NaN>>

drop_duplicates(rows, withDistrict) ==
    LET first(k) == \A j \in 1..(k - 1) :
                        DedupKey(rows[j], withDistrict) # DedupKey(rows[k], withDistrict)
        idx == SelectSeq(Positions(Len(rows)), first)
    IN  [k \in 1..Len(idx) |-> rows[idx[k]]]

\* robust_clean_excel: the cleaned long frame of one file; empty when the
\* file could not be processed.
robust_clean_excel(sh, source_name) ==
    LET df == process_pharma_excel(sh)
        withDistrict == HasColumnDistrict(df.rows)
        tagged == Tagged(df.rows, source_name, NaN)
        hasUnits(r) == notna(r.Units)
        numeric == LET t == SelectSeq(tagged, hasUnits)
                   IN  [k \in 1..Len(t) |-> [t[k] EXCEPT !.Units = to_numeric(@)]]
        valid(r) == /\ r.Units.num /\ r.Units.v > 0
                    /\ r.Region # NaN /\ r.Drug_Name # NaN
        kept == SelectSeq(numeric, valid)
        std == [k \in 1..Len(kept) |->
                   [kept[k] EXCEPT !.Region = Strip(AsStr(@)),
                                   !.Drug_Name = Strip(AsStr(@)),
                                   !.District = IF withDistrict THEN Strip(AsStr(@)) ELSE @]]
    IN  IF ~df.ok \/ df.rows = <<>> THEN <<>>
        ELSE drop_duplicates(std, withDistrict)

\* The orders in which glob may list the files of a folder.
GlobOrders(S) ==
    {o \in [1..Cardinality(S) -> S] : \A i, j \in 1..Cardinality(S) : o[i] = o[j] => i = j}

\* The Excel files create_master_data works on.
MasterFiles(folder) ==
    {n \in Glob(folder, X_xlsx) \cup Glob(folder, X_xls) :
        ~StartsWith(n, TEMP_FILE_PREFIX) /\ ~StartsWith(n, TEMP_FILE_PREFIX_OFFICE)}

\* create_master_data over the files in the order given: the concatenation of
\* the non-empty cleaned frames.
create_master_data(folder, order) ==
    LET RECURSIVE Go(_)
        Go(k) == IF k > Len(order) THEN <<>>
                 ELSE robust_clean_excel(folder[order[k]].sheet,
                                         extract_source_name(order[k])) \o Go(k + 1)
    IN  Go(1)

(***************************************************************************)
(* The state machine.                                                      *)
(***************************************************************************)
\* The cells of the row at position i: Units of the period columns.
Measure(i, c) == 5 * i + 5 * (c - 1)
NewRow(lbl, i, ncols) == [col_a |-> lbl, cells |-> [c \in 1..ncols |-> Num(Measure(i, c))]]

NoSheet == [header |-> <<>>, rows |-> <<>>]
NoStore == [kind |-> "none"]
NoFile == [exists |-> FALSE, sheet |-> NoSheet]
EmptyDirs == [f \in Folders |-> [n \in FileNames |-> NoFile]]

FillLabels == {L_RegionSofia, L_RegionVarna, L_District, L_Category,
               L_Aerius, L_Zyrtec, L_GrandTotal, NaN}

InitCommon ==
    /\ melted = [ok |-> FALSE, rows |-> <<>>]
    /\ pc = "build"
    /\ label = <<>>
    /\ verdict = [ingest |-> "none", logic |-> FALSE, app |-> FALSE]
    /\ dirs = EmptyDirs
    /\ table = <<>>
    /\ master = [exists |-> FALSE, rows |-> <<>>]
    /\ uploads = 0
    /\ report = [kind |-> "none"]
    /\ store = NoStore

Init ==
    /\ sheet = [header |-> <<H_Q1, H_Q2>>, rows |-> <<>>]
    /\ InitCommon

\* One more row read from the sheet.
AddRow(labels, max) ==
    /\ pc = "build"
    /\ Len(sheet.rows) < max
    /\ \E lbl \in labels :
          sheet' = [sheet EXCEPT !.rows =
                       Append(@, NewRow(lbl, Len(sheet.rows) + 1, Len(sheet.header)))]
    /\ UNCHANGED <<melted, pc, label, verdict, dirs, table, master, uploads, report, store>>

\* process_pharma_excel on the sheet.
ProcessExcel ==
    /\ pc = "build"
    /\ melted' = process_pharma_excel(sheet)
    /\ pc' = "melted"
    /\ UNCHANGED <<sheet, label, verdict, dirs, table, master, uploads, report, store>>

\* The admin upload handler of app.py: the file is written into the folder
\* of the team (an existing file of that name is overwritten).
AdminUpload(team, name, content) ==
    /\ dirs' = [dirs EXCEPT ![team][name] = [exists |-> TRUE, sheet |-> content]]
    /\ uploads' = uploads + 1

\* The sheet is uploaded as a file of Team 2.
SaveSheet ==
    /\ pc = "melted"
    /\ AdminUpload(TEAM_2, F_TotalQ, sheet)
    /\ pc' = "saved"
    /\ UNCHANGED <<sheet, melted, label, verdict, table, master, report, store>>

\* load_data: the table of the app is rebuilt from the data directory.
LoadData ==
    /\ uploads > 0
    /\ table' = load_data(dirs, master)
    /\ pc' = "loaded"
    /\ UNCHANGED <<sheet, melted, label, verdict, dirs, master, uploads, report, store>>

Next ==
    \/ AddRow(FillLabels, MaxRows)
    \/ ProcessExcel
    \/ SaveSheet
    \/ LoadData

Spec == Init /\ [][Next]_vars

(***************************************************************************)
(* The classifiers of a therapeutic class used after ingestion.            *)
(***************************************************************************)
M_GRAND_TOTAL == <<"G","R","A","N","D"," ","T","O","T","A","L">>
M_Grand_Total == <<"G","r","a","n","d"," ","T","o","t","a","l">>

\* logic._is_atc_class (the same test is repeated in advanced_viz.py,
\* evolution_index.py and app.py's market-share block).
logic_is_atc_class(drug_name) ==
    LET s == AsStr(drug_name)
        parts == Split(s)
        first == parts[1]
    IN  /\ drug_name # NaN
        /\ parts # <<>>
        /\ Len(first) >= 4 /\ Len(first) <= 7
        /\ first[1] \in UpperCh \cup LowerCh
        /\ \E i \in 1..Len(first) : first[i] \in DigitCh
        /\ IsUpper(first)
        /\ Len(parts) >= 2
        /\ drug_name \notin {M_GRAND_TOTAL, M_Grand_Total}
        /\ ~StartsWith(s, W_Region)

\* app._is_atc_class of the quick search: re.match(r'^[A-Z]\d{2}[A-Z]\d', strip()).
app_is_atc_class(drug_name) ==
    LET x == Strip(AsStr(drug_name))
    IN  /\ drug_name # NaN
        /\ Len(x) >= 5
        /\ x[1] \in UpperCh /\ x[2] \in DigitCh /\ x[3] \in DigitCh
        /\ x[4] \in UpperCh /\ x[5] \in DigitCh

\* What the three classifiers of the repository answer for one label.
Classifiers(x) ==
    [ingest |-> RowRole(Strip(AsStr(x))),
     logic  |-> logic_is_atc_class(x),
     app    |-> app_is_atc_class(x)]

\* The words labels are built from.
T_R06A0 == <<"R","0","6","A","0">>
T_C10AA == <<"C","1","0","A","A">>
T_AERIUS == <<"A","E","R","I","U","S">>
T_5MG == <<"5","M","G">>
T_Region == <<"R","e","g","i","o","n">>
T_GRAND == <<"G","R","A","N","D">>
T_TOTAL == <<"T","O","T","A","L">>
T_Total == <<"T","o","t","a","l">>
T_PH == <<"(","P","H",")">>
T_AB1 == <<"A","B","1">>
T_ABCDEFG1 == <<"A","B","C","D","E","F","G","1">>
T_Ab12 == <<"A","b","1","2">>
T_STATINS == <<"S","T","A","T","I","N","S">>
T_A1 == <<"A","1">>
Tokens == {T_R06A0, T_C10AA, T_AERIUS, T_5MG, T_Region, T_GRAND, T_TOTAL, T_Total, T_PH, T_AB1, T_ABCDEFG1, T_Ab12, T_STATINS, T_A1}

InitClassify ==
    /\ sheet = NoSheet
    /\ InitCommon

\* One more word of the label, separated by a space.
AppendToken ==
    /\ pc = "build"
    /\ Len(Split(label)) < MaxTokens
    /\ \E tok \in Tokens : label' = IF label = <<>> THEN tok ELSE label \o SP \o tok
    /\ UNCHANGED <<sheet, melted, pc, verdict, dirs, table, master, uploads, report, store>>

\* The label is classified by every classifier.
Classify ==
    /\ pc = "build"
    /\ label # <<>>
    /\ verdict' = Classifiers(label)
    /\ pc' = "classified"
    /\ UNCHANGED <<sheet, melted, label, dirs, table, master, uploads, report, store>>

NextClassify == AppendToken \/ Classify

SpecClassify == InitClassify /\ [][NextClassify]_vars

(***************************************************************************)
(* Melting sheets with different headers.                                  *)
(***************************************************************************)
MeltHeaders == { <<H_Q1, H_Q2>>, <<H_Q1, H_Q1Units>>, <<H_Q1Units, H_Q2Units>>,
                 <<H_Jan, H_Notes, H_Feb>>, <<H_Notes, H_Q2, H_Q1>> }
MeltLabels == {L_RegionSofia, L_RegionVarna, L_District, L_Category, L_Aerius}

InitMelt ==
    /\ sheet \in {[header |-> h, rows |-> <<>>] : h \in MeltHeaders}
    /\ InitCommon

NextMelt ==
    \/ AddRow(MeltLabels, MaxMeltRows)
    \/ ProcessExcel

SpecMelt == InitMelt /\ [][NextMelt]_vars

(***************************************************************************)
(* Assembly of the table from the files of the data directory.             *)
(***************************************************************************)
StdSheet(labels) ==
    [header |-> <<H_Q1, H_Q2>>,
     rows |-> [i \in 1..Len(labels) |-> NewRow(labels[i], i, 2)]]
K_One == StdSheet(<<L_RegionSofia, L_Aerius>>)
K_Dup == StdSheet(<<L_RegionSofia, L_Aerius, L_Aerius>>)
Catalog == {K_One, K_Dup}

InitAssemble ==
    /\ sheet = NoSheet
    /\ InitCommon

\* An admin uploads a workbook for a team.
Upload ==
    /\ uploads < MaxUploads
    /\ \E t \in 1..Len(TEAM_FOLDERS), n \in FileNames, k \in Catalog :
          AdminUpload(TEAM_FOLDERS[t], n, k)
    /\ UNCHANGED <<sheet, melted, pc, label, verdict, table, master, report, store>>

\* A workbook is put into the data directory itself, where
\* create_master_data and the fallback of load_all_excel_files look.
CopyToDataDir ==
    /\ uploads < MaxUploads
    /\ \E n \in FileNames, k \in Catalog :
          dirs' = [dirs EXCEPT ![Root][n] = [exists |-> TRUE, sheet |-> k]]
    /\ uploads' = uploads + 1
    /\ UNCHANGED <<sheet, melted, pc, label, verdict, table, master, report, store>>

\* create_master_data: master_data.csv is written when some file gave rows.
CreateMasterData ==
    /\ MasterFiles(dirs[Root]) # {}
    /\ \E order \in GlobOrders(MasterFiles(dirs[Root])) :
          LET df == create_master_data(dirs[Root], order)
          IN  /\ df # <<>>
              /\ master' = [exists |-> TRUE, rows |-> df]
    /\ pc' = "mastered"
    /\ UNCHANGED <<sheet, melted, label, verdict, dirs, table, uploads, report, store>>

NextAssemble ==
    \/ Upload
    \/ CopyToDataDir
    \/ LoadData
    \/ CreateMasterData

SpecAssemble == InitAssemble /\ [][NextAssemble]_vars

(***************************************************************************)
(* A batch of workbooks of mixed quality in one folder.                    *)
(***************************************************************************)
MaxBatch == 2

T_na == <<"n","/","a">>
T_12 == <<"1","2">>

\* A workbook whose measures are negative, zero, text, numeric text or missing.
K_Odd ==
    [header |-> <<H_Q1, H_Q2>>,
     rows |-> << [col_a |-> L_RegionSofia, cells |-> <<Blank, Blank>>],
                 [col_a |-> L_Aerius, cells |-> <<Num(0 - 5), Txt(T_na)>>],
                 [col_a |-> L_Zyrtec, cells |-> <<Num(0), Txt(T_12)>>],
                 [col_a |-> L_Category, cells |-> <<Blank, Num(7)>>] >>]
\* A workbook with header rows only: no row is left after step 8.
K_HeadersOnly == StdSheet(<<L_RegionSofia, L_District>>)
\* A workbook with column A only: no period column, ExcelProcessingError.
K_NoPeriods ==
    [header |-> <<>>,
     rows |-> << [col_a |-> L_RegionSofia, cells |-> <<>>],
                 [col_a |-> L_Aerius, cells |-> <<>>] >>]
K_Two == StdSheet(<<L_RegionVarna, L_Zyrtec>>)
BatchCatalog == {K_One, K_Two, K_Odd, K_HeadersOnly, K_NoPeriods}

\* A workbook is uploaded for Team 1.
UploadBatch ==
    /\ uploads < MaxBatch
    /\ \E n \in FileNames, k \in BatchCatalog : AdminUpload(TEAM_1, n, k)
    /\ UNCHANGED <<sheet, melted, pc, label, verdict, table, master, report, store>>

\* A workbook is put into the data directory itself.
CopyBatch ==
    /\ uploads < MaxBatch
    /\ \E n \in FileNames, k \in BatchCatalog :
          dirs' = [dirs EXCEPT ![Root][n] = [exists |-> TRUE, sheet |-> k]]
    /\ uploads' = uploads + 1
    /\ UNCHANGED <<sheet, melted, pc, label, verdict, table, master, report, store>>

NextBatch ==
    \/ UploadBatch
    \/ CopyBatch
    \/ LoadData
    \/ CreateMasterData

SpecBatch == InitAssemble /\ [][NextBatch]_vars

(***************************************************************************)
(* Numbers of the analytics: NumPy floats. A finite value is kept as an    *)
(* exact fraction n/d (rounding is not modelled); a division by zero gives *)
(* inf, -inf or nan as NumPy does; None is the value of an absent result.  *)
(***************************************************************************)
Abs(x) == IF x < 0 THEN 0 - x ELSE x
RECURSIVE GCD(_, _)
GCD(a, b) == IF b = 0 THEN a ELSE GCD(b, a % b)

Frac(n, d) ==
    LET g == GCD(Abs(n), Abs(d))
        sg == IF d < 0 THEN 0 - 1 ELSE 1
    IN  [k |-> "num", n |-> (sg * n) \div g, d |-> (sg * d) \div g]
Flt(n) == Frac(n, 1)
Inf(sign) == [k |-> "inf", n |-> sign, d |-> 1]
FNaN == [k |-> "nan", n |-> 0, d |-> 1]
None == [k |-> "none", n |-> 0, d |-> 1]

Sign(x) == IF x.n > 0 THEN 1 ELSE IF x.n < 0 THEN 0 - 1 ELSE 0

FAdd(a, b) ==
    IF a.k = "nan" \/ b.k = "nan" THEN FNaN
    ELSE IF a.k = "inf" /\ b.k = "inf" THEN (IF a.n = b.n THEN a ELSE FNaN)
    ELSE IF a.k = "inf" THEN a
    ELSE IF b.k = "inf" THEN b
    ELSE Frac(a.n * b.d + b.n * a.d, a.d * b.d)
FNeg(a) == IF a.k = "nan" THEN FNaN ELSE [a EXCEPT !.n = 0 - @]
FSub(a, b) == FAdd(a, FNeg(b))
FMul(a, b) ==
    IF a.k = "nan" \/ b.k = "nan" THEN FNaN
    ELSE IF a.k = "inf" \/ b.k = "inf"
         THEN (IF Sign(a) * Sign(b) = 0 THEN FNaN ELSE Inf(Sign(a) * Sign(b)))
    ELSE Frac(a.n * b.n, a.d * b.d)
FDiv(a, b) ==
    IF a.k = "nan" \/ b.k = "nan" THEN FNaN
    ELSE IF a.k = "inf" THEN (IF b.k = "inf" THEN FNaN
                              ELSE Inf(IF Sign(b) < 0 THEN 0 - a.n ELSE a.n))
    ELSE IF b.k = "inf" THEN Flt(0)
    ELSE IF b.n = 0 THEN (IF a.n = 0 THEN FNaN ELSE Inf(Sign(a)))
    ELSE Frac(a.n * b.d, a.d * b.n)

\* x > 0, x == 0, bool(x) and a < b on floats (every comparison with nan is false).
FPos(a) == a.k \in {"num", "inf"} /\ a.n > 0
FIsZero(a) == a.k = "num" /\ a.n = 0
FTruthy(a) == ~FIsZero(a)
FLess(a, b) ==
    IF a.k = "nan" \/ b.k = "nan" THEN FALSE
    ELSE IF a.k = "inf" THEN a.n < 0 /\ ~(b.k = "inf" /\ b.n < 0)
    ELSE IF b.k = "inf" THEN b.n > 0
    ELSE a.n * b.d < b.n * a.d

(***************************************************************************)
(* Frames of the analytics.                                                *)
(***************************************************************************)
\* Series.unique(): the values in order of first appearance.
Unique(col) ==
    LET first(k) == \A j \in 1..(k - 1) : col[j] # col[k]
        idx == SelectSeq(Positions(Len(col)), first)
    IN  [k \in 1..Len(idx) |-> col[idx[k]]]

\* df[...]["Units"].sum()
RECURSIVE SumUnits(_)
SumUnits(rows) ==
    IF rows = <<>> THEN 0 ELSE Head(rows).Units.v + SumUnits(Tail(rows))

\* df[(df["Drug_Name"] == drug) & (df[period_col] == period)]["Units"].sum()
Sales(df, drug, period) ==
    LET hit(r) == r.Drug_Name = drug /\ r.Quarter = period
    IN  Flt(SumUnits(SelectSeq(df, hit)))

(***************************************************************************)
(* logic.py and advanced_viz.py: growth rankings.                          *)
(***************************************************************************)
\* The sorted periods of the data: the last one and the one before it are compared.
PERIODS == <<H_Q1, H_Q2>>

\* df.groupby(col)["Units"].sum(): the keys in sorted order.
RegionKeys(rows) == Sorted({rows[i].Region : i \in 1..Len(rows)})
DrugKeys(rows) == Sorted({rows[i].Drug_Name : i \in 1..Len(rows)})

\* The orders DataFrame.sort_values (kind="quicksort", not stable) may give to
\* rows with these keys: every order in which the keys are sorted; rows with
\* equal keys come in an order the sort does not fix.
SortOutcomes(keys, ascending) ==
    LET n == Len(keys)
    IN  {o \in [1..n -> 1..n] :
            /\ \A i, j \in 1..n : o[i] = o[j] => i = j
            /\ \A i \in 1..(n - 1) :
                  IF ascending THEN ~FLess(keys[o[i + 1]], keys[o[i]])
                  ELSE ~FLess(keys[o[i]], keys[o[i + 1]])}

\* Change_% of render_churn_alert_table (np.where on Previous == 0).
growth_churn(prev, curr) ==
    IF prev = 0 THEN Flt(0) ELSE Frac((curr - prev) * 100, prev)

\* growth_pct of the quick search summary of app.py.
growth_quick_search(prev_units, last_units) ==
    IF prev_units > 0 THEN Frac((last_units - prev_units) * 100, prev_units) ELSE Flt(0)

\* Change_% of create_period_comparison: Units_1.replace(0, 1) divides by 1
\* where the first period has 0 units.
growth_period_comparison(units_1, units_2) ==
    FMul(FDiv(Flt(units_2 - units_1), Flt(IF units_1 = 0 THEN 1 ELSE units_1)), Flt(100))

\* pivot_growth of create_regional_comparison (np.where on prev_vals > 0).
growth_regional_comparison(prev_vals, curr_vals) ==
    IF prev_vals > 0 THEN Frac((curr_vals - prev_vals) * 100, prev_vals)
    ELSE IF curr_vals > 0 THEN Flt(100) ELSE Flt(0)

\* Growth_% of compute_last_vs_previous_rankings (np.where).
growth_rankings(prev_u, curr_u) ==
    IF prev_u = 0 THEN (IF curr_u > 0 THEN Flt(100) ELSE Flt(0))
    ELSE Frac((curr_u - prev_u) * 100, prev_u)

\* compute_last_vs_previous_rankings up to the sort: one row per Region of the
\* product with units in the last or the previous period, in Region order.
\* ok = FALSE stands for None.
rankings_merged(df, product, periods) ==
    LET isProduct(r) == r.Drug_Name = product
        sub == SelectSeq(df, isProduct)
        last_period == periods[Len(periods)]
        prev_period == periods[Len(periods) - 1]
        inLast(r) == r.Quarter = last_period
        inPrev(r) == r.Quarter = prev_period
        inEither(r) == inLast(r) \/ inPrev(r)
        regions == RegionKeys(SelectSeq(sub, inEither))
        units(rows, region) == LET here(r) == r.Region = region
                               IN  SumUnits(SelectSeq(rows, here))
    IN  IF df = <<>> \/ product = <<>> \/ Len(periods) < 2 \/ sub = <<>>
        THEN [ok |-> FALSE, merged |-> <<>>]
        ELSE [ok |-> TRUE,
              merged |-> [k \in 1..Len(regions) |->
                  LET l == units(SelectSeq(sub, inLast), regions[k])
                      p == units(SelectSeq(sub, inPrev), regions[k])
                  IN  [Region |-> regions[k], Last_Units |-> l, Previous_Units |-> p,
                       Growth |-> growth_rankings(p, l)]]]

\* The results compute_last_vs_previous_rankings may return: merged sorted by
\* Growth_% descending (Rank is the position), top_region and top_growth.
compute_last_vs_previous_rankings(df, product, periods) ==
    LET m == rankings_merged(df, product, periods)
        keys == [k \in 1..Len(m.merged) |-> m.merged[k].Growth]
    IN  IF ~m.ok THEN {[kind |-> "rankings", ok |-> FALSE, product |-> product, merged |-> <<>>]}
        ELSE {[kind |-> "rankings", ok |-> TRUE, product |-> product,
               merged |-> [k \in 1..Len(m.merged) |-> m.merged[o[k]]]] :
                  o \in SortOutcomes(keys, FALSE)}

\* render_churn_alert_table: the products (classes excluded) by Change
\* ascending, the first top_n of them.
churn_merged(df_raw, periods) ==
    LET notClass(r) == ~logic_is_atc_class(r.Drug_Name)
        df == SelectSeq(df_raw, notClass)
        last_period == periods[Len(periods)]
        prev_period == periods[Len(periods) - 1]
        inLast(r) == r.Quarter = last_period
        inPrev(r) == r.Quarter = prev_period
        inEither(r) == inLast(r) \/ inPrev(r)
        drugs == DrugKeys(SelectSeq(df, inEither))
        units(rows, drug) == LET here(r) == r.Drug_Name = drug
                             IN  SumUnits(SelectSeq(rows, here))
    IN  [k \in 1..Len(drugs) |->
            LET c == units(SelectSeq(df, inLast), drugs[k])
                p == units(SelectSeq(df, inPrev), drugs[k])
            IN  [Entity |-> drugs[k], Previous |-> p, Current |-> c, Change |-> c - p,
                 Change_pct |-> growth_churn(p, c)]]

Head_n(rows, n) == SubSeq(rows, 1, IF Len(rows) < n THEN Len(rows) ELSE n)

render_churn_alert_table_all(df_raw, periods, top_n) ==
    LET m == churn_merged(df_raw, periods)
        keys == [k \in 1..Len(m) |-> Flt(m[k].Change)]
    IN  {[kind |-> "churn", top_n |-> top_n,
          merged |-> [k \in 1..Len(m) |-> m[o[k]]]] :
              o \in SortOutcomes(keys, TRUE)}
render_churn_alert_table(df_raw, periods, top_n) ==
    LET m == churn_merged(df_raw, periods)
        keys == [k \in 1..Len(m) |-> Flt(m[k].Change)]
    IN  {[kind |-> "churn", top_n |-> top_n,
          merged |-> Head_n([k \in 1..Len(m) |-> m[o[k]]], top_n)] :
              o \in SortOutcomes(keys, TRUE)}

(***************************************************************************)
(* logic.py and evolution_index.py: Evolution Index.                       *)
(***************************************************************************)
\* growth_pct / class_growth_pct of compute_ei_rows_and_overall.
growth_ei_over_ref(sales_ref, sales_base) ==
    IF FTruthy(sales_base)
    THEN FMul(FDiv(FSub(sales_ref, sales_base), sales_ref), Flt(100))
    ELSE IF FTruthy(sales_ref) THEN Flt(100) ELSE Flt(0)
growth_ei(sales_ref, sales_base) ==
    IF FTruthy(sales_base)
    THEN FMul(FDiv(FSub(sales_ref, sales_base), sales_base), Flt(100))
    ELSE IF FTruthy(sales_ref) THEN Flt(100) ELSE Flt(0)

\* growth_pct / class_growth_pct of _calc_evolution_index.
growth_calc(sales_ref, sales_base) ==
    IF FIsZero(sales_base)
    THEN (IF FIsZero(sales_ref) THEN Flt(0) ELSE Flt(100))
    ELSE FMul(FDiv(FSub(sales_ref, sales_base), sales_base), Flt(100))

\* product_df["Source"].iloc[0], or None without a row of the drug.
NoSource == <<>>
ProductSource(df, drug) ==
    LET isDrug(r) == r.Drug_Name = drug
        product_df == SelectSeq(df, isDrug)
    IN  IF product_df = <<>> THEN NoSource ELSE product_df[1].Source

\* The class names (token heuristic) whose rows have the Source, in order of
\* first appearance.
matching_any_source(df, product_source) ==
    LET isClass(r) == logic_is_atc_class(r.Drug_Name)
        df_classes == SelectSeq(df, isClass)
    IN  Unique([k \in 1..Len(df_classes) |-> df_classes[k].Drug_Name])
matching_classes(df, product_source) ==
    LET isClass(r) == logic_is_atc_class(r.Drug_Name) /\ r.Source = product_source
        df_classes == SelectSeq(df, isClass)
    IN  Unique([k \in 1..Len(df_classes) |-> df_classes[k].Drug_Name])

\* One row of compute_ei_rows_and_overall.
ei_row(df, drug, ref_period, base_period) ==
    LET sales_ref == Sales(df, drug, ref_period)
        sales_base == Sales(df, drug, base_period)
        growth_pct == growth_ei(sales_ref, sales_base)
        product_source == ProductSource(df, drug)
        matching == matching_classes(df, product_source)
        class_growth_pct == growth_ei(Sales(df, matching[1], ref_period),
                                      Sales(df, matching[1], base_period))
        found == product_source # NoSource /\ matching # <<>>
    IN  [drug |-> drug, sales_ref |-> sales_ref, sales_base |-> sales_base,
         growth_pct |-> growth_pct,
         class_growth_pct |-> IF found THEN class_growth_pct ELSE None,
         ei |-> IF found
                THEN FMul(FDiv(FAdd(Flt(100), growth_pct), FAdd(Flt(100), class_growth_pct)),
                          Flt(100))
                ELSE None]

\* The sums over the rows with an EI: total_sales_ref and weighted_ei_sum.
RECURSIVE WeightSum(_)
WeightSum(rows) ==
    IF rows = <<>> THEN Flt(0)
    ELSE FAdd(WeightSum(SubSeq(rows, 1, Len(rows) - 1)), rows[Len(rows)].sales_ref)
RECURSIVE WeightedEiSum(_)
WeightedEiSum(rows) ==
    IF rows = <<>> THEN Flt(0)
    ELSE FAdd(WeightedEiSum(SubSeq(rows, 1, Len(rows) - 1)),
              FMul(rows[Len(rows)].ei, rows[Len(rows)].sales_ref))

\* compute_ei_rows_and_overall: (rows, overall_ei).
overall(rows) ==
    LET hasEi(r) == r.ei # None
        withEi == SelectSeq(rows, hasEi)
    IN  IF FPos(WeightSum(withEi)) THEN FDiv(WeightedEiSum(withEi), WeightSum(withEi))
        ELSE None

compute_ei_rows_and_overall(df, drugs, ref_period, base_period) ==
    LET rows == [k \in 1..Len(drugs) |-> ei_row(df, drugs[k], ref_period, base_period)]
    IN  IF drugs = <<>> THEN [rows |-> <<>>, overall_ei |-> None]
        ELSE [rows |-> rows, overall_ei |-> overall(rows)]

\* _calc_evolution_index of evolution_index.py.
calc_evolution_index(df, drug, ref_period, base_period) ==
    LET sales_ref == Sales(df, drug, ref_period)
        sales_base == Sales(df, drug, base_period)
        growth_pct == growth_calc(sales_ref, sales_base)
        product_source == ProductSource(df, drug)
        matching == matching_classes(df, product_source)
        class_growth_pct == growth_calc(Sales(df, matching[1], ref_period),
                                        Sales(df, matching[1], base_period))
        found == product_source # NoSource /\ matching # <<>>
    IN  [drug |-> drug, sales_ref |-> sales_ref, sales_base |-> sales_base,
         growth_pct |-> growth_pct,
         class_growth_pct |-> IF found THEN class_growth_pct ELSE None,
         ei |-> IF found
                THEN FMul(FDiv(FAdd(Flt(100), growth_pct), FAdd(Flt(100), class_growth_pct)),
                          Flt(100))
                ELSE None,
         class_name |-> IF found THEN matching[1] ELSE NoSource]

\* The portfolio of render_evolution_index_tab: the rows and overall_ei.
render_evolution_index_tab(df, sel_drugs, ref_period, base_period) ==
    LET rows == [k \in 1..Len(sel_drugs) |->
                    calc_evolution_index(df, sel_drugs[k], ref_period, base_period)]
    IN  [rows |-> rows, overall_ei |-> overall(rows)]

\* The rows compute_region_ei_benchmark weighs: an index, and a reference
\* volume that is truthy and positive.
benchmark_rows(rows) ==
    LET weighs(r) == r.ei # None /\ FTruthy(r.sales_ref) /\ FPos(r.sales_ref)
    IN  SelectSeq(rows, weighs)

\* out.sort(key=lambda x: x[1], reverse=True): a stable sort, an entry goes
\* behind the entries that are not less than it.
RECURSIVE sort_reverse(_)
sort_reverse(out) ==
    IF Len(out) <= 1 THEN out
    ELSE LET x == out[Len(out)]
             front == sort_reverse(SubSeq(out, 1, Len(out) - 1))
             stays(e) == ~FLess(e.ei, x.ei)
             yields(e) == FLess(e.ei, x.ei)
         IN  SelectSeq(front, stays) \o <<x>> \o SelectSeq(front, yields)

\* One pass of the loop of compute_region_ei_benchmark: ei_w and w_sum of a region.
region_weights(df_national, drugs, ref_period, base_period, region) ==
    LET inRegion(r) == r.Region = region
        df_r == SelectSeq(df_national, inRegion)
    IN  CHOOSE e \in {[label |-> region, w_sum |-> WeightSum(w), ei_w |-> WeightedEiSum(w)] :
                        w \in {benchmark_rows(compute_ei_rows_and_overall(
                                   df_r, drugs, ref_period, base_period).rows)}} : TRUE

\* out before the sort: the regions with w_sum > 0, in the order of regions.
RECURSIVE region_out(_, _, _, _, _)
region_out(df_national, drugs, ref_period, base_period, regions) ==
    IF regions = <<>> THEN <<>>
    ELSE (CHOOSE o \in {IF FPos(e.w_sum)
                        THEN <<[label |-> e.label, ei |-> FDiv(e.ei_w, e.w_sum)]>> ELSE <<>> :
                        e \in {region_weights(df_national, drugs, ref_period, base_period,
                                              Head(regions))}} : TRUE)
         \o region_out(df_national, drugs, ref_period, base_period, Tail(regions))

\* compute_region_ei_benchmark of logic.py: (region, weighted EI) per region.
compute_region_ei_benchmark(df_national, drugs, ref_period, base_period) ==
    IF df_national = <<>> \/ drugs = <<>> THEN <<>>
    ELSE CHOOSE sorted \in {sort_reverse(out) :
             out \in {region_out(df_national, drugs, ref_period, base_period,
                                 RegionKeys(df_national))}} : TRUE

\* locs of render_evolution_index_tab: the (Region, District) pairs of the rows
\* with a District (groupby drops the others), sorted by Region, then District.
RECURSIVE LocsOf(_, _)
LocsOf(rows, regions) ==
    IF regions = <<>> THEN <<>>
    ELSE LET districts == Sorted({rows[i].District :
                              i \in {j \in 1..Len(rows) : rows[j].Region = Head(regions)}})
         IN  [k \in 1..Len(districts) |-> <<Head(regions), districts[k]>>]
             \o LocsOf(rows, Tail(regions))
loc_filters(df_national) ==
    LET hasDistrict(r) == r.District # NaN
        rows == SelectSeq(df_national, hasDistrict)
    IN  LocsOf(rows, RegionKeys(rows))

\* One pass of the loop of render_evolution_index_tab: ei_weighted and w_sum of
\* a location.
loc_weights(df_national, sel_drugs, ref_period, base_period, loc) ==
    LET inLoc(r) == r.Region = loc[1] /\ r.District = loc[2]
        df_loc == SelectSeq(df_national, inLoc)
        weighs(r) == r.ei # None /\ FPos(r.sales_ref)
    IN  CHOOSE e \in {[w_sum |-> WeightSum(w), ei_weighted |-> WeightedEiSum(w)] :
                        w \in {SelectSeq([k \in 1..Len(sel_drugs) |->
                                   calc_evolution_index(df_loc, sel_drugs[k], ref_period,
                                                        base_period)], weighs)}} : TRUE

\* region_ei_data of render_evolution_index_tab: ("Region | District",
\* weighted EI) per location with w_sum > 0, in the order of the locations.
RECURSIVE region_ei_data_of(_, _, _, _, _)
region_ei_data_of(df_national, sel_drugs, ref_period, base_period, locs) ==
    IF locs = <<>> THEN <<>>
    ELSE (CHOOSE o \in {IF FPos(e.w_sum)
                        THEN <<[label |-> Head(locs)[1] \o <<" ", "|", " ">> \o Head(locs)[2],
                                ei |-> FDiv(e.ei_weighted, e.w_sum)]>>
                        ELSE <<>> :
                        e \in {loc_weights(df_national, sel_drugs, ref_period, base_period,
                                           Head(locs))}} : TRUE)
         \o region_ei_data_of(df_national, sel_drugs, ref_period, base_period, Tail(locs))
region_ei_data(df_national, sel_drugs, ref_period, base_period) ==
    CHOOSE data \in {region_ei_data_of(df_national, sel_drugs, ref_period, base_period, locs) :
                        locs \in {loc_filters(df_national)}} : TRUE

(***************************************************************************)
(* data_processing.py: the order of the periods.                           *)
(***************************************************************************)
\* config.QUARTERS.get(token) and config.MONTHS.get(token); 0 stands for None.
QUARTERS(token) ==
    IF Len(token) = 2 /\ token[1] = "Q" /\ token[2] \in {"1", "2", "3", "4"}
    THEN DigitVal(token[2]) ELSE 0
MONTHS(token) ==
    IF \E m \in 1..Len(MONTH_NAMES) : MONTH_NAMES[m] = token
    THEN CHOOSE m \in 1..Len(MONTH_NAMES) : MONTH_NAMES[m] = token
    ELSE 0

\* int(parts[-1]) if parts else 0, and 0 on ValueError.
period_year(parts) ==
    LET last == parts[Len(parts)]
    IN  IF parts = <<>> THEN 0
        ELSE IF IsDigits(last) THEN ParseDigits(last)
        ELSE IF Len(last) > 1 /\ last[1] \in {"+", "-"} /\ IsDigits(Tail(last))
             THEN (IF last[1] = "-" THEN 0 - ParseDigits(Tail(last)) ELSE ParseDigits(Tail(last)))
        ELSE 0

\* get_period_sort_key: (year, number of the quarter or month, or 0).
get_period_sort_key(period) ==
    LET parts == Split(period)
        token == IF parts = <<>> THEN <<>> ELSE parts[1]
    IN  IF QUARTERS(token) # 0 THEN <<period_year(parts), QUARTERS(token)>>
        ELSE IF MONTHS(token) # 0 THEN <<period_year(parts), MONTHS(token)>>
        ELSE <<period_year(parts), 0>>

\* The order of Python tuples.
KeyLess(a, b) == a[1] < b[1] \/ (a[1] = b[1] /\ a[2] < b[2])

\* sorted(unique_periods, key=get_period_sort_key): a stable sort, a period
\* goes behind the periods whose key is not greater than its own.
RECURSIVE sorted_by_key(_)
sorted_by_key(periods) ==
    IF Len(periods) <= 1 THEN periods
    ELSE CHOOSE out \in
           {LET stays(e) == ~KeyLess(get_period_sort_key(x), get_period_sort_key(e))
                yields(e) == KeyLess(get_period_sort_key(x), get_period_sort_key(e))
            IN  SelectSeq(front, stays) \o <<x>> \o SelectSeq(front, yields) :
                front \in {sorted_by_key(SubSeq(periods, 1, Len(periods) - 1))},
                x \in {periods[Len(periods)]}} : TRUE

\* get_sorted_periods: the distinct periods of the frame, sorted by the key.
get_sorted_periods(df) ==
    sorted_by_key(Unique([k \in 1..Len(df) |-> df[k].Quarter]))

(***************************************************************************)
(* logic.py: the guards of the metric functions. A frame is its columns    *)
(* and its rows; a call returns a value or raises.                         *)
(***************************************************************************)
ALL_COLUMNS == {"Region", "District", "Drug_Name", "Quarter", "Units", "Source", "Team"}
Frame(columns, rows) == [columns |-> columns, rows |-> rows]
Raised == [raised |-> TRUE]
Returned(v) == [raised |-> FALSE, value |-> v]

\* compute_last_vs_previous_rankings on a frame: None (ok = FALSE) from the
\* guards; periods[-1], periods[-2] raise IndexError on fewer than two periods;
\* the columns the function reads raise KeyError when missing.
rankings_call_unguarded(frame, product, periods) ==
    LET isProduct(r) == r.Drug_Name = product
        none == Returned([kind |-> "rankings", ok |-> FALSE, product |-> product, merged |-> <<>>])
    IN  IF \/ frame.rows = <<>>
           \/ {"Region", "Units", "Quarter"} \ frame.columns # {}
        THEN {none}
        ELSE IF "Drug_Name" \notin frame.columns \/ product = <<>> THEN {none}
        ELSE IF SelectSeq(frame.rows, isProduct) = <<>> THEN {none}
        ELSE IF Len(periods) < 2 THEN {Raised}
        ELSE {Returned(out) : out \in compute_last_vs_previous_rankings(frame.rows, product, periods)}
rankings_call(frame, product, periods) ==
    LET isProduct(r) == r.Drug_Name = product
        none == Returned([kind |-> "rankings", ok |-> FALSE, product |-> product, merged |-> <<>>])
    IN  IF \/ frame.rows = <<>>
           \/ {"Region", "Units", "Quarter"} \ frame.columns # {}
        THEN {none}
        ELSE IF "Drug_Name" \notin frame.columns \/ product = <<>> THEN {none}
        ELSE IF Len(periods) < 2 THEN {none}
        ELSE IF SelectSeq(frame.rows, isProduct) = <<>> THEN {none}
        ELSE IF Len(periods) < 2 THEN {Raised}
        ELSE {Returned(out) : out \in compute_last_vs_previous_rankings(frame.rows, product, periods)}

\* compute_ei_rows_and_overall on a frame: ([], None) without the Source
\* column or without drugs; KeyError when a column it reads is missing.
ei_call(frame, drugs, ref_period, base_period) ==
    IF "Source" \notin frame.columns \/ drugs = <<>>
    THEN Returned([rows |-> <<>>, overall_ei |-> None])
    ELSE IF {"Drug_Name", "Quarter", "Units"} \ frame.columns # {} THEN Raised
    ELSE Returned(compute_ei_rows_and_overall(frame.rows, drugs, ref_period, base_period))

\* compute_region_ei_benchmark on a frame: [] for an empty frame, without the
\* Region column or without drugs; without Source every region has no rows.
benchmark_call(frame, drugs, ref_period, base_period) ==
    IF frame.rows = <<>> \/ "Region" \notin frame.columns \/ drugs = <<>> THEN Returned(<<>>)
    ELSE IF "Source" \notin frame.columns THEN Returned(<<>>)
    ELSE IF {"Drug_Name", "Quarter", "Units"} \ frame.columns # {} THEN Raised
    ELSE Returned(compute_region_ei_benchmark(frame.rows, drugs, ref_period, base_period))

(***************************************************************************)
(* Analytics over the loaded table.                                        *)
(***************************************************************************)
MaxFacts == 3
MaxTopN == 2

T_SOFIA == <<"S","O","F","I","A">>
T_VARNA == <<"V","A","R","N","A">>
S_A == <<"A">>
S_B == <<"B">>

\* A row of the loaded table.
FactRow(region, drug, quarter, units, source) ==
    [Region |-> region, District |-> NaN, Drug_Name |-> drug, Quarter |-> quarter,
     Units |-> Num(units), Source |-> source, Team |-> TEAM_1]

\* One more row in the loaded table.
AddFact(facts, max) ==
    /\ pc = "build"
    /\ Len(table) < max
    /\ \E f \in facts : table' = Append(table, f)
    /\ UNCHANGED <<sheet, melted, pc, label, verdict, dirs, master, uploads, report, store>>

Reported(out) ==
    /\ pc = "build"
    /\ report' = out
    /\ pc' = "reported"
    /\ UNCHANGED <<sheet, melted, label, verdict, dirs, table, master, uploads, store>>

\* The growth leaderboard of a product over the regions.
Rankings(products) ==
    \E product \in products :
        \E out \in compute_last_vs_previous_rankings(table, product, PERIODS) : Reported(out)

\* The churn alert table.
ChurnAlert ==
    \E top_n \in 1..MaxTopN :
        \E out \in render_churn_alert_table(table, PERIODS, top_n) : Reported(out)

\* The Evolution Index of a portfolio, by logic.py and by evolution_index.py.
ComputeEi(portfolios) ==
    \E drugs \in portfolios :
        LET out == compute_ei_rows_and_overall(table, drugs, PERIODS[2], PERIODS[1])
        IN  Reported([kind |-> "ei", drugs |-> drugs, rows |-> out.rows,
                      overall_ei |-> out.overall_ei])
EvolutionIndexTab(portfolios) ==
    \E drugs \in portfolios :
        LET out == render_evolution_index_tab(table, drugs, PERIODS[2], PERIODS[1])
        IN  Reported([kind |-> "ei_tab", drugs |-> drugs, rows |-> out.rows,
                      overall_ei |-> out.overall_ei])

\* Growth: the sales of two products and a class in two regions and two quarters.
GrowthUnits == {0 - 5, 0, 100}
GrowthFacts ==
    {FactRow(e[1], e[2], q, u, S_A) :
        e \in {<<T_SOFIA, L_Aerius>>, <<T_VARNA, L_Aerius>>,
                <<T_SOFIA, L_Zyrtec>>, <<T_SOFIA, L_Category>>},
        q \in {H_Q1, H_Q2}, u \in GrowthUnits}

\* The leaderboard scenario: three regions whose product grows by +30 %, -10 %
\* and +5 %.
T_BURGAS == <<"B","U","R","G","A","S">>
LeaderboardTable ==
    << FactRow(T_BURGAS, L_Aerius, H_Q1, 100, S_A), FactRow(T_SOFIA, L_Aerius, H_Q1, 100, S_A),
       FactRow(T_VARNA, L_Aerius, H_Q1, 100, S_A), FactRow(T_BURGAS, L_Aerius, H_Q2, 130, S_A),
       FactRow(T_SOFIA, L_Aerius, H_Q2, 90, S_A), FactRow(T_VARNA, L_Aerius, H_Q2, 105, S_A) >>

InitGrowth ==
    /\ sheet = NoSheet
    /\ melted = [ok |-> FALSE, rows |-> <<>>]
    /\ pc = "build"
    /\ label = <<>>
    /\ verdict = [ingest |-> "none", logic |-> FALSE, app |-> FALSE]
    /\ dirs = EmptyDirs
    /\ table \in {<<>>, LeaderboardTable}
    /\ master = [exists |-> FALSE, rows |-> <<>>]
    /\ uploads = 0
    /\ report = [kind |-> "none"]
    /\ store = NoStore

NextGrowth ==
    \/ AddFact(GrowthFacts, MaxFacts)
    \/ Rankings({L_Aerius, L_Zyrtec})
    \/ ChurnAlert
    \/ ComputeEi({<<L_Aerius>>})
    \/ EvolutionIndexTab({<<L_Aerius>>})

SpecGrowth == InitGrowth /\ [][NextGrowth]_vars

(***************************************************************************)
(* ui_components.py: market share of calculate_metric_data.                *)
(***************************************************************************)
\* The class whose units are the total: the first class with the Source of the
\* first product of the list, else the first class of the frame; NoSource
\* when the frame has no class.
share_class_name(df_full, products_list) ==
    LET isClass(r) == logic_is_atc_class(r.Drug_Name)
        df_classes == SelectSeq(df_full, isClass)
        unique_classes == Unique([k \in 1..Len(df_classes) |-> df_classes[k].Drug_Name])
        product_source == ProductSource(df_full, products_list[1])
        matching == matching_classes(df_full, product_source)
    IN  IF df_classes = <<>> THEN NoSource
        ELSE IF products_list # <<>> /\ product_source # NoSource /\ matching # <<>>
             THEN matching[1]
        ELSE unique_classes[1]

\* class_by_period.get(period, 0): the units of that class, or of all the
\* products when there is no class.
share_total(df_full, class_name, period) ==
    LET ofClass(r) == /\ logic_is_atc_class(r.Drug_Name) /\ r.Drug_Name = class_name
                      /\ r.Quarter = period
        ofProducts(r) == ~logic_is_atc_class(r.Drug_Name) /\ r.Quarter = period
    IN  IF class_name # NoSource THEN Flt(SumUnits(SelectSeq(df_full, ofClass)))
        ELSE Flt(SumUnits(SelectSeq(df_full, ofProducts)))

\* calc_share of one row of df_agg.
calc_share(df_full, class_name, drug_name, period, units) ==
    LET total == share_total(df_full, class_name, period)
    IN  IF logic_is_atc_class(drug_name) THEN Flt(100)
        ELSE IF FPos(total) THEN FDiv(FMul(Flt(100), Sales(df_full, drug_name, period)), total)
        ELSE Flt(0)

\* calculate_metric_data: df_agg with Units and Market_Share_% per period and
\* product of the list (df is the frame shown, df_full the national one).
calculate_metric_data(df, products_list, periods, df_full) ==
    LET listed(r) == \E k \in 1..Len(products_list) : r.Drug_Name = products_list[k]
        df_chart == SelectSeq(df, listed)
        quarters == Sorted({df_chart[i].Quarter : i \in 1..Len(df_chart)})
        drugs == DrugKeys(df_chart)
        nd == Len(drugs)
        cell(k) == [Quarter |-> quarters[((k - 1) \div nd) + 1],
                    Drug_Name |-> drugs[((k - 1) % nd) + 1]]
        seen(k) == \E i \in 1..Len(df_chart) :
                      /\ df_chart[i].Quarter = cell(k).Quarter
                      /\ df_chart[i].Drug_Name = cell(k).Drug_Name
        keys == SelectSeq(Positions(Len(quarters) * nd), seen)
        class_name == share_class_name(df_full, products_list)
    IN  [k \in 1..Len(keys) |->
            LET c == cell(keys[k])
                units == Sales(df, c.Drug_Name, c.Quarter)
            IN  [Quarter |-> c.Quarter, Drug_Name |-> c.Drug_Name, Units |-> units,
                 Market_Share |-> calc_share(df_full, class_name, c.Drug_Name, c.Quarter, units)]]

\* The market share table of the dashboard, all regions selected.
MetricData(lists) ==
    \E products_list \in lists :
        Reported([kind |-> "share", products_list |-> products_list,
                  rows |-> calculate_metric_data(table, products_list, PERIODS, table)])

\* Market share: two products and their classes, each pair from its own file.
L_Class2 == T_C10AA \o SP \o T_STATINS
ShareUnits == {0, 50, 200}
ShareFacts ==
    {FactRow(T_SOFIA, e[1], q, u, e[2]) :
        e \in {<<L_Aerius, S_A>>, <<L_Category, S_A>>, <<L_Zyrtec, S_B>>, <<L_Class2, S_B>>},
        q \in {H_Q1, H_Q2}, u \in ShareUnits}
ShareScenarioTable ==
    << FactRow(T_SOFIA, L_Category, H_Q1, 200, S_A), FactRow(T_SOFIA, L_Aerius, H_Q1, 50, S_A),
       FactRow(T_SOFIA, L_Class2, H_Q1, 50, S_B), FactRow(T_SOFIA, L_Zyrtec, H_Q1, 50, S_B) >>
ProductLists == {<<L_Aerius, L_Zyrtec>>, <<L_Zyrtec, L_Aerius>>, <<L_Aerius, L_Category>>}

InitShare ==
    /\ sheet = NoSheet
    /\ melted = [ok |-> FALSE, rows |-> <<>>]
    /\ pc = "build"
    /\ label = <<>>
    /\ verdict = [ingest |-> "none", logic |-> FALSE, app |-> FALSE]
    /\ dirs = EmptyDirs
    /\ table \in {<<>>, ShareScenarioTable}
    /\ master = [exists |-> FALSE, rows |-> <<>>]
    /\ uploads = 0
    /\ report = [kind |-> "none"]
    /\ store = NoStore

NextShare ==
    \/ AddFact(ShareFacts, MaxFacts)
    \/ MetricData(ProductLists)

SpecShare == InitShare /\ [][NextShare]_vars

\* Evolution Index: two products and a class, from two files, in one region.
EiUnits == {0 - 5, 0, 100, 120}
EiFacts ==
    {FactRow(T_SOFIA, e[1], q, u, e[2]) :
        e \in {<<L_Aerius, S_A>>, <<L_Zyrtec, S_A>>, <<L_Zyrtec, S_B>>, <<L_Category, S_A>>},
        q \in {H_Q1, H_Q2}, u \in EiUnits}

\* The product grows from 100 to 120 while its class stays at 100.
EiScenarioTable ==
    << FactRow(T_SOFIA, L_Category, H_Q1, 100, S_A), FactRow(T_SOFIA, L_Aerius, H_Q1, 100, S_A),
       FactRow(T_SOFIA, L_Category, H_Q2, 100, S_A), FactRow(T_SOFIA, L_Aerius, H_Q2, 120, S_A) >>

InitEi ==
    /\ sheet = NoSheet
    /\ melted = [ok |-> FALSE, rows |-> <<>>]
    /\ pc = "build"
    /\ label = <<>>
    /\ verdict = [ingest |-> "none", logic |-> FALSE, app |-> FALSE]
    /\ dirs = EmptyDirs
    /\ table \in {<<>>, EiScenarioTable}
    /\ master = [exists |-> FALSE, rows |-> <<>>]
    /\ uploads = 0
    /\ report = [kind |-> "none"]
    /\ store = NoStore

Portfolios == {<<L_Aerius>>, <<L_Aerius, L_Zyrtec>>}

NextEi ==
    \/ AddFact(EiFacts, MaxFacts)
    \/ ComputeEi(Portfolios)
    \/ EvolutionIndexTab(Portfolios)

SpecEi == InitEi /\ [][NextEi]_vars

\* Benchmark: a product, a second product and their class in the one brick of
\* each of two regions.
BenchUnits == {0 - 5, 100}
BenchRow(region, drug, quarter, units) ==
    [FactRow(region, drug, quarter, units, S_A) EXCEPT !.District = L_District]
BenchFacts ==
    {BenchRow(region, drug, q, u) :
        region \in {T_SOFIA, T_VARNA}, drug \in {L_Aerius, L_Zyrtec, L_Category},
        q \in {H_Q1, H_Q2}, u \in BenchUnits}

\* The product keeps its 100 units in SOFIA and grows from 100 to 120 in VARNA,
\* while the class stays at 100 in both regions.
BenchScenarioTable ==
    << BenchRow(T_SOFIA, L_Category, H_Q1, 100), BenchRow(T_SOFIA, L_Category, H_Q2, 100),
       BenchRow(T_SOFIA, L_Aerius, H_Q1, 100), BenchRow(T_SOFIA, L_Aerius, H_Q2, 100),
       BenchRow(T_VARNA, L_Category, H_Q1, 100), BenchRow(T_VARNA, L_Category, H_Q2, 100),
       BenchRow(T_VARNA, L_Aerius, H_Q1, 100), BenchRow(T_VARNA, L_Aerius, H_Q2, 120) >>

InitBench ==
    /\ sheet = NoSheet
    /\ melted = [ok |-> FALSE, rows |-> <<>>]
    /\ pc = "build"
    /\ label = <<>>
    /\ verdict = [ingest |-> "none", logic |-> FALSE, app |-> FALSE]
    /\ dirs = EmptyDirs
    /\ table \in {<<>>, BenchScenarioTable}
    /\ master = [exists |-> FALSE, rows |-> <<>>]
    /\ uploads = 0
    /\ report = [kind |-> "none"]
    /\ store = NoStore

\* The regional benchmark of a portfolio, by logic.py and by evolution_index.py.
RegionBenchmark(portfolios) ==
    \E drugs \in portfolios :
        Reported([kind |-> "benchmark", drugs |-> drugs,
                  out |-> compute_region_ei_benchmark(table, drugs, PERIODS[2], PERIODS[1])])
BenchmarkChart(portfolios) ==
    \E drugs \in portfolios :
        Reported([kind |-> "benchmark_chart", drugs |-> drugs,
                  out |-> region_ei_data(table, drugs, PERIODS[2], PERIODS[1])])

NextBench ==
    \/ AddFact(BenchFacts, MaxFacts)
    \/ RegionBenchmark(Portfolios)
    \/ BenchmarkChart(Portfolios)

SpecBench == InitBench /\ [][NextBench]_vars

\* Guards: the metric functions on any frame, with or without the Source
\* column, for known and unknown products and any number of periods.
GuardFacts ==
    {FactRow(e[1], e[2], q, u, S_A) :
        e \in {<<T_SOFIA, L_Aerius>>, <<T_VARNA, L_Aerius>>, <<T_SOFIA, L_Category>>},
        q \in {H_Q1, H_Q2}, u \in {0, 100}}
GuardColumns == {ALL_COLUMNS, ALL_COLUMNS \ {"Source"}}
GuardPeriods == {<<>>, <<H_Q2>>, PERIODS}
GuardProducts == {<<>>, L_Aerius, L_Zyrtec}
GuardPortfolios == {<<>>, <<L_Aerius>>, <<L_Zyrtec>>, <<L_Aerius, L_Zyrtec>>}

InitGuard ==
    /\ sheet = NoSheet
    /\ melted = [ok |-> FALSE, rows |-> <<>>]
    /\ pc = "build"
    /\ label = <<>>
    /\ verdict = [ingest |-> "none", logic |-> FALSE, app |-> FALSE]
    /\ dirs = EmptyDirs
    /\ table = <<>>
    /\ master = [exists |-> FALSE, rows |-> <<>>]
    /\ uploads = 0
    /\ report = [kind |-> "none"]
    /\ store = NoStore

CallRankings ==
    \E columns \in GuardColumns, product \in GuardProducts, periods \in GuardPeriods :
        \E out \in rankings_call(Frame(columns, table), product, periods) :
            Reported([kind |-> "call", fn |-> "rankings", columns |-> columns,
                      drugs |-> <<product>>, periods |-> periods, out |-> out])
CallEi ==
    \E columns \in GuardColumns, drugs \in GuardPortfolios :
        Reported([kind |-> "call", fn |-> "ei", columns |-> columns, drugs |-> drugs,
                  periods |-> PERIODS,
                  out |-> ei_call(Frame(columns, table), drugs, PERIODS[2], PERIODS[1])])
CallBenchmark ==
    \E columns \in GuardColumns, drugs \in GuardPortfolios :
        Reported([kind |-> "call", fn |-> "benchmark", columns |-> columns, drugs |-> drugs,
                  periods |-> PERIODS,
                  out |-> benchmark_call(Frame(columns, table), drugs, PERIODS[2], PERIODS[1])])

NextGuard ==
    \/ AddFact(GuardFacts, MaxFacts)
    \/ CallRankings
    \/ CallEi
    \/ CallBenchmark

SpecGuard == InitGuard /\ [][NextGuard]_vars

\* Periods: period texts of up to MaxTokens words, and a table of up to
\* MaxPeriods rows carrying them.
MaxPeriods == 2
W_Q1 == <<"Q", "1">>
W_Jan == <<"J", "a", "n">>
W_Notes == <<"N", "o", "t", "e", "s">>
W_2023 == <<"2", "0", "2", "3">>
W_2024 == <<"2", "0", "2", "4">>
PeriodWords == {W_Q1, W_Jan, W_Notes, W_2023, W_2024}

InitPeriod ==
    /\ sheet = NoSheet
    /\ InitCommon

\* One more word of the period text, separated by a space.
AppendPeriodWord ==
    /\ pc = "build"
    /\ Len(Split(label)) < MaxTokens
    /\ \E w \in PeriodWords : label' = IF label = <<>> THEN w ELSE label \o SP \o w
    /\ UNCHANGED <<sheet, melted, pc, verdict, dirs, table, master, uploads, report, store>>

\* A row with the period text goes into the table.
AddPeriod ==
    /\ pc = "build"
    /\ label # <<>>
    /\ Len(table) < MaxPeriods
    /\ table' = Append(table, FactRow(T_SOFIA, L_Aerius, label, 100, S_A))
    /\ label' = <<>>
    /\ UNCHANGED <<sheet, melted, pc, verdict, dirs, master, uploads, report, store>>

\* The sort key of the period text, and the sorted periods of the table.
PeriodSortKey ==
    /\ label # <<>>
    /\ Reported([kind |-> "sort_key", period |-> label, key |-> get_period_sort_key(label)])
SortedPeriods ==
    Reported([kind |-> "periods", out |-> get_sorted_periods(table)])

NextPeriod ==
    \/ AppendPeriodWord
    \/ AddPeriod
    \/ PeriodSortKey
    \/ SortedPeriods

SpecPeriod == InitPeriod /\ [][NextPeriod]_vars

\* Detection: headers of up to MaxHeader columns after column A, and one of
\* more columns than the fallback takes.
MaxHeader == 3
H_Q9 == <<"Q", "9", " ", "2", "0", "2", "4">>
HeaderTexts == {H_Q1, H_Q1Units, H_Jan, H_Notes, H_Q9, W_Jan}
WideHeader == [i \in 1..(FallbackColumns + 1) |-> H_Notes]

InitDetect ==
    /\ sheet \in {NoSheet, [header |-> WideHeader, rows |-> <<>>]}
    /\ InitCommon

\* One more column of the header row.
AppendHeader ==
    /\ pc = "build"
    /\ Len(sheet.header) < MaxHeader
    /\ \E h \in HeaderTexts : sheet' = [sheet EXCEPT !.header = Append(@, h)]
    /\ UNCHANGED <<melted, pc, label, verdict, dirs, table, master, uploads, report, store>>

\* _detect_period_columns on the header; process_pharma_excel raises when it
\* finds no column.
DetectPeriodColumns ==
    Reported([kind |-> "period_cols", cols |-> detect_period_columns(sheet.header),
              raised |-> detect_period_columns(sheet.header) = <<>>])

NextDetect ==
    \/ AppendHeader
    \/ DetectPeriodColumns

SpecDetect == InitDetect /\ [][NextDetect]_vars

(***************************************************************************)
(* data_processing.py, build_parquet.py, app.py: the cached table. The     *)
(* content of a source file is told by its modification time; a snapshot   *)
(* is the time it was built at and the files it was built from.            *)
(***************************************************************************)
CACHE_TTL == 300
TickSeconds == 100
MaxClock == 300
Absent == 0 - 1
SourceFiles == {F_TotalQ, F_Other}
NoSources == [f \in SourceFiles |-> Absent]
Snapshot(built, sources) == [built |-> built, sources |-> sources]
NoEntry == [valid |-> FALSE, at |-> 0, snap |-> Snapshot(0, NoSources)]
Entry(at, snap) == [valid |-> TRUE, at |-> at, snap |-> snap]

\* load_all_excel_files under st.cache_data without ttl: the entry cached for
\* the data directory, or the files as they are now.
load_all_excel_files_cached(st) ==
    IF st.excel.valid THEN st.excel ELSE Entry(st.clock, Snapshot(st.clock, st.mtime))

\* load_data under st.cache_data(ttl=CACHE_TTL): the cached entry while it is
\* younger than the ttl; otherwise pharma_data.parquet when it exists;
\* otherwise load_all_excel_files. The result is [data, excel]: the two caches
\* after the call.
load_data_cached(st) ==
    IF st.data.valid /\ st.clock - st.data.at < CACHE_TTL
    THEN [data |-> st.data, excel |-> st.excel]
    ELSE IF st.parquet.valid
         THEN [data |-> Entry(st.clock, st.parquet.snap), excel |-> st.excel]
    ELSE [data |-> Entry(st.clock, load_all_excel_files_cached(st).snap),
          excel |-> load_all_excel_files_cached(st)]

NotLoaded == [loaded |-> FALSE]

InitCache ==
    /\ sheet = NoSheet
    /\ melted = [ok |-> FALSE, rows |-> <<>>]
    /\ pc = "build"
    /\ label = <<>>
    /\ verdict = [ingest |-> "none", logic |-> FALSE, app |-> FALSE]
    /\ dirs = EmptyDirs
    /\ table = <<>>
    /\ master = [exists |-> FALSE, rows |-> <<>>]
    /\ uploads = 0
    /\ report = [kind |-> "none"]
    /\ store = [kind |-> "cache", clock |-> 0, mtime |-> NoSources, parquet |-> NoEntry,
                excel |-> NoEntry, data |-> NoEntry, last |-> NotLoaded]

Stored(st) ==
    /\ store' = st
    /\ UNCHANGED <<sheet, melted, pc, label, verdict, dirs, table, master, uploads, report>>

\* Time passes.
Tick ==
    /\ store.clock + TickSeconds <= MaxClock
    /\ Stored([store EXCEPT !.clock = @ + TickSeconds, !.last = NotLoaded])

\* The admin upload handler: the file is written and both caches are cleared.
AdminUploadFile ==
    \E f \in SourceFiles :
        Stored([store EXCEPT !.mtime[f] = store.clock, !.excel = NoEntry, !.data = NoEntry,
                       !.last = NotLoaded])

\* A file of the data directory is written (or written again) outside the app.
WriteFile ==
    \E f \in SourceFiles : Stored([store EXCEPT !.mtime[f] = store.clock, !.last = NotLoaded])

\* build_parquet.py: pharma_data.parquet is written from the files, when
\* there are any.
BuildParquet ==
    /\ store.mtime # NoSources
    /\ Stored([store EXCEPT !.parquet = Entry(store.clock, Snapshot(store.clock, store.mtime)),
                      !.last = NotLoaded])

\* A page load calls load_data.
LoadPage ==
    LET out == load_data_cached(store)
    IN  Stored([store EXCEPT !.data = out.data, !.excel = out.excel,
                   !.last = [loaded |-> TRUE, value |-> out.data.snap,
                             before |-> [mtime |-> store.mtime, parquet |-> store.parquet,
                                         excel |-> store.excel, data |-> store.data]]])

NextCache ==
    \/ Tick
    \/ AdminUploadFile
    \/ WriteFile
    \/ BuildParquet
    \/ LoadPage

SpecCache == InitCache /\ [][NextCache]_vars

(***************************************************************************)
(* The visit log of app.py: visits_log.csv, one record per page load, and  *)
(* the st.session_state of each browser session.                           *)
(***************************************************************************)
MaxMinute == 2
MaxCalls == 2
Sessions == {1, 2}
T_Page == <<"P","a","g","e">>
T_Team1 == <<"T","e","a","m"," ","1">>
T_Team2 == <<"T","e","a","m"," ","2">>
T_Team3 == <<"T","e","a","m"," ","3">>
VisitTeams == {T_Team1, T_Team2}
VisitRegions == {T_SOFIA, T_VARNA}
VisitKeys == {<<T_Page, t, <<>>, r>> : t \in VisitTeams, r \in VisitRegions}
NoVisits == [k \in VisitKeys |-> Absent]
NewSession == [is_admin |-> FALSE, seen |-> NoVisits]

\* datetime.now(datetime.UTC) with "from datetime import datetime": the class
\* datetime has no attribute UTC, the expression raises AttributeError.
datetime_UTC == Raised

VisitRecord(minute, key) == [timestamp |-> minute, key |-> key]

\* track_visit with the minute read off the clock, datetime.now() not raising.
track_visit_clock(st, s, key, skip_if_admin) ==
    IF skip_if_admin /\ st.session[s].is_admin THEN [store |-> st, raised |-> FALSE]
    ELSE IF st.session[s].seen[key] = st.minute THEN [store |-> st, raised |-> FALSE]
    ELSE [store |-> [st EXCEPT !.session[s].seen[key] = st.minute,
                               !.log = Append(@, VisitRecord(st.minute, key))],
          raised |-> FALSE]

\* track_visit(section_name, team, product, region, skip_if_admin) called in
\* session s; key is (section_name, team, product, region). The result is the
\* store after the call and whether the call raised.
track_visit(st, s, key, skip_if_admin) ==
    IF skip_if_admin /\ st.session[s].is_admin THEN [store |-> st, raised |-> FALSE]
    ELSE IF datetime_UTC.raised THEN [store |-> st, raised |-> TRUE]
    ELSE IF st.session[s].seen[key] = st.minute THEN [store |-> st, raised |-> FALSE]
    ELSE [store |-> [st EXCEPT !.session[s].seen[key] = st.minute,
                               !.log = Append(@, VisitRecord(st.minute, key))],
          raised |-> FALSE]

\* reset_analytics of app.py unlinks the log files.
reset_analytics(st) == [st EXCEPT !.log = <<>>]

NoCalls == [k \in VisitKeys |-> 0]

InitVisit ==
    /\ sheet = NoSheet
    /\ melted = [ok |-> FALSE, rows |-> <<>>]
    /\ pc = "build"
    /\ label = <<>>
    /\ verdict = [ingest |-> "none", logic |-> FALSE, app |-> FALSE]
    /\ dirs = EmptyDirs
    /\ table = <<>>
    /\ master = [exists |-> FALSE, rows |-> <<>>]
    /\ uploads = 0
    /\ report = [kind |-> "none"]
    /\ store = [kind |-> "visits", minute |-> 0, session |-> [s \in Sessions |-> NewSession],
                log |-> <<>>, calls |-> NoCalls]

VisitStep(st, rep) ==
    /\ store' = st
    /\ report' = rep
    /\ UNCHANGED <<sheet, melted, pc, label, verdict, dirs, table, master, uploads>>

\* The next minute begins; calls counts the non-admin calls of this minute.
NextMinute ==
    /\ store.minute < MaxMinute
    /\ VisitStep([store EXCEPT !.minute = @ + 1, !.calls = NoCalls], [kind |-> "none"])

\* A session logs in as admin, or out.
ToggleAdmin ==
    \E s \in Sessions :
        VisitStep([store EXCEPT !.session[s].is_admin = ~@], [kind |-> "none"])

\* A browser session is closed and opened again: its session_state is new.
OpenSession ==
    \E s \in Sessions :
        VisitStep([store EXCEPT !.session[s] = NewSession], [kind |-> "none"])

\* A page load of session s reaches the track_visit call of app.py:818.
TrackVisit ==
    \E s \in Sessions, key \in VisitKeys, skip_if_admin \in BOOLEAN :
        /\ store.calls[key] < MaxCalls
        /\ Len(store.log) < MaxCalls * (MaxMinute + 1)
        /\ \E out \in {track_visit(store, s, key, skip_if_admin)} :
              VisitStep([out.store EXCEPT !.calls[key] =
                            IF skip_if_admin /\ store.session[s].is_admin THEN @ ELSE @ + 1],
                        [kind |-> "visit", session |-> s, key |-> key,
                         skip_if_admin |-> skip_if_admin,
                         is_admin |-> store.session[s].is_admin,
                         raised |-> out.raised, before |-> store.log])

\* The admin presses the reset button.
ResetVisits ==
    /\ \E s \in Sessions : store.session[s].is_admin
    /\ VisitStep(reset_analytics(store), [kind |-> "none"])

NextVisit ==
    \/ NextMinute
    \/ ToggleAdmin
    \/ OpenSession
    \/ TrackVisit
    \/ ResetVisits

SpecVisit == InitVisit /\ [][NextVisit]_vars

(***************************************************************************)
(* analytics.py: visit counts per team in analytics.json.                  *)
(* DEFAULT_ANALYTICS.copy() is a shallow copy: the copy has its own        *)
(* "total", and its "visits" is the dict of DEFAULT_ANALYTICS itself.      *)
(***************************************************************************)
MaxVisits == 3
T_Guest == <<"G","u","e","s","t">>
AnalyticsTeams == {T_Team1, T_Team2, T_Team3}
ZeroVisits == [t \in AnalyticsTeams |-> 0]

\* _load_analytics: the counts of the file, read into dicts of their own, or
\* a copy of DEFAULT_ANALYTICS when there is no file. shared tells that
\* "visits" is the dict of DEFAULT_ANALYTICS.
_load_analytics(st) ==
    IF ~st.file.exists
    THEN [visits |-> st.DEFAULT_ANALYTICS.visits, total |-> st.DEFAULT_ANALYTICS.total,
          shared |-> TRUE]
    ELSE [visits |-> st.file.visits, total |-> st.file.total, shared |-> FALSE]

_save_analytics(st, data) ==
    [st EXCEPT !.file = [exists |-> TRUE, visits |-> data.visits, total |-> data.total]]

\* track_visit of analytics.py writing into a dict of its own.
analytics_track_visit_deep(st, team, is_admin) ==
    IF is_admin THEN st
    ELSE LET data == _load_analytics(st)
             team_key == IF team \in DOMAIN data.visits THEN team ELSE T_Team2
             visits == [data.visits EXCEPT ![team_key] = @ + 1]
         IN  _save_analytics(st, [visits |-> visits, total |-> data.total + 1])

\* track_visit of analytics.py: data["visits"][team_key] += 1 writes into the
\* dict that was loaded, which is the dict of DEFAULT_ANALYTICS when there
\* was no file; data["total"] is set on the copy.
analytics_track_visit(st, team, is_admin) ==
    IF is_admin THEN st
    ELSE LET data == _load_analytics(st)
             team_key == IF team \in DOMAIN data.visits THEN team ELSE T_Team2
             visits == [data.visits EXCEPT ![team_key] = @ + 1]
             defaults == IF data.shared
                         THEN [st EXCEPT !.DEFAULT_ANALYTICS.visits = visits]
                         ELSE st
         IN  _save_analytics(defaults, [visits |-> visits, total |-> data.total + 1])

get_analytics(st) == [visits |-> _load_analytics(st).visits, total |-> _load_analytics(st).total]

\* reset_analytics of analytics.py saves a copy of DEFAULT_ANALYTICS.
analytics_reset_analytics(st) ==
    _save_analytics(st, [visits |-> st.DEFAULT_ANALYTICS.visits,
                         total |-> st.DEFAULT_ANALYTICS.total])

InitAnalytics ==
    /\ sheet = NoSheet
    /\ melted = [ok |-> FALSE, rows |-> <<>>]
    /\ pc = "build"
    /\ label = <<>>
    /\ verdict = [ingest |-> "none", logic |-> FALSE, app |-> FALSE]
    /\ dirs = EmptyDirs
    /\ table = <<>>
    /\ master = [exists |-> FALSE, rows |-> <<>>]
    /\ uploads = 0
    /\ report = [kind |-> "none"]
    /\ store = [kind |-> "analytics",
                DEFAULT_ANALYTICS |-> [visits |-> ZeroVisits, total |-> 0],
                file |-> [exists |-> FALSE, visits |-> ZeroVisits, total |-> 0],
                last |-> "none"]

AnalyticsStep(st, op, rep) ==
    /\ store' = [st EXCEPT !.last = op]
    /\ report' = rep
    /\ UNCHANGED <<sheet, melted, pc, label, verdict, dirs, table, master, uploads>>

AnalyticsTrackVisit ==
    \E team \in AnalyticsTeams \cup {T_Guest}, is_admin \in BOOLEAN :
        /\ store.file.total < MaxVisits
        /\ AnalyticsStep(analytics_track_visit(store, team, is_admin),
                         IF is_admin THEN store.last ELSE "track", [kind |-> "none"])

AnalyticsReset == AnalyticsStep(analytics_reset_analytics(store), "reset", [kind |-> "none"])

GetAnalytics ==
    AnalyticsStep(store, store.last,
                  [kind |-> "analytics", out |-> get_analytics(store), after |-> store.last])

\* The server process starts again: the module is imported anew, the file stays.
RestartServer ==
    AnalyticsStep([store EXCEPT !.DEFAULT_ANALYTICS = [visits |-> ZeroVisits, total |-> 0]],
                  store.last, [kind |-> "none"])

NextAnalytics ==
    \/ AnalyticsTrackVisit
    \/ AnalyticsReset
    \/ GetAnalytics
    \/ RestartServer

SpecAnalytics == InitAnalytics /\ [][NextAnalytics]_vars

(***************************************************************************)
(* Period-over-period growth, place by place, on the same pair of unit     *)
(* sums.                                                                   *)
(***************************************************************************)
PairUnits == {0, 1, 50, 100, 120}
GrowthSites == {"leaderboard", "ei_rows", "quick_search", "churn", "period_comparison",
                "regional_comparison"}
growth_at(site, prev, curr) ==
    CASE site = "leaderboard" -> growth_rankings(prev, curr)
      [] site = "ei_rows" -> growth_ei(Flt(curr), Flt(prev))
      [] site = "quick_search" -> growth_quick_search(prev, curr)
      [] site = "churn" -> growth_churn(prev, curr)
      [] site = "period_comparison" -> growth_period_comparison(prev, curr)
      [] site = "regional_comparison" -> growth_regional_comparison(prev, curr)

InitPair ==
    /\ sheet = NoSheet
    /\ melted = [ok |-> FALSE, rows |-> <<>>]
    /\ pc = "build"
    /\ label = <<>>
    /\ verdict = [ingest |-> "none", logic |-> FALSE, app |-> FALSE]
    /\ dirs = EmptyDirs
    /\ table = <<>>
    /\ master = [exists |-> FALSE, rows |-> <<>>]
    /\ uploads = 0
    /\ store = NoStore
    /\ \E prev, curr \in PairUnits : report = [kind |-> "pair", prev |-> prev, curr |-> curr]

\* One place of the dashboard computes the growth of the pair.
GrowthOf(site) ==
    /\ report.kind \in {"pair", "growth"}
    /\ Reported([kind |-> "growth", site |-> site, prev |-> report.prev, curr |-> report.curr,
                 value |-> growth_at(site, report.prev, report.curr)])

Leaderboard == GrowthOf("leaderboard")
EiRows == GrowthOf("ei_rows")
QuickSearchSummary == GrowthOf("quick_search")
ChurnTable == GrowthOf("churn")
PeriodComparison == GrowthOf("period_comparison")
RegionalComparison == GrowthOf("regional_comparison")

NextPair ==
    \/ Leaderboard
    \/ EiRows
    \/ QuickSearchSummary
    \/ ChurnTable
    \/ PeriodComparison
    \/ RegionalComparison

SpecPair == InitPair /\ [][NextPair]_vars

(***************************************************************************)
(* What the claims speak of, read off the sheet and the long frame.        *)
(***************************************************************************)
SheetColA == ColA(sheet.rows)
SheetLabels == [i \in 1..Len(sheet.rows) |-> sheet.rows[i].col_a]

\* The sheet has been processed without ExcelProcessingError.
Processed == pc # "build" /\ melted.ok

\* Positions of the rows whose role is Drug (Product) or Category
\* (TherapeuticClass), top to bottom.
IsEntityPos(i) == RowRole(SheetColA[i]) \in {"Drug", "Category"}
EntityPos == SelectSeq(Positions(Len(sheet.rows)), IsEntityPos)
PeriodCols == detect_period_columns(sheet.header)

\* pd.melt lists the rows column by column: the k-th long row comes from
\* this row of the sheet and this column.
SrcPos(k) == EntityPos[((k - 1) % Len(EntityPos)) + 1]
SrcCol(k) == PeriodCols[((k - 1) \div Len(EntityPos)) + 1]

RegionsBefore(i) == {j \in 1..(i - 1) : RowRole(SheetColA[j]) = "Region"}
DistrictsBetween(j, i) == {d \in (j + 1)..(i - 1) : RowRole(SheetColA[d]) = "District"}
MaxOf(S) == CHOOSE x \in S : \A y \in S : y <= x

T_nan == <<"n","a","n">>

\* C1: every emitted Product or TherapeuticClass row carries the label of the
\* most recent Region row above it in the sheet.
C1_RegionForwardFilled ==
    Processed =>
        /\ Len(melted.rows) = Len(EntityPos) * Len(PeriodCols)
        /\ \A k \in 1..Len(melted.rows) :
              RegionsBefore(SrcPos(k)) # {} =>
                  melted.rows[k].Region = SheetColA[MaxOf(RegionsBefore(SrcPos(k)))]

\* C1 witness: Region SOFIA, a product, Region VARNA, a product - the first
\* product is stamped SOFIA and the second VARNA.
C1_Witness ==
    /\ Processed
    /\ SheetLabels = <<L_RegionSofia, L_Aerius, L_RegionVarna, L_Zyrtec>>
    /\ melted.rows[1].Drug_Name = L_Aerius /\ melted.rows[1].Region = L_RegionSofia
    /\ melted.rows[2].Drug_Name = L_Zyrtec /\ melted.rows[2].Region = L_RegionVarna

\* C2: a data row that follows a Region row with no District row in between
\* carries no District (the Region row made the District context absent).
C2_RegionResetsDistrict ==
    Processed =>
        \A k \in 1..Len(melted.rows) :
            LET i == SrcPos(k)
            IN  (RegionsBefore(i) # {} /\ DistrictsBetween(MaxOf(RegionsBefore(i)), i) = {})
                    => melted.rows[k].District = NaN

\* C3: the table holds no row with an absent or defaulted Region; the data rows
\* above the first Region row are left out and the others are all there.
C3_NoAbsentRegion ==
    pc = "loaded" =>
        /\ \A k \in 1..Len(table) : table[k].Region \notin {NaN, T_nan, <<>>}
        /\ Len(table) = Len(PeriodCols)
                        * Cardinality({k \in 1..Len(EntityPos) :
                                          RegionsBefore(EntityPos[k]) # {}})

IsMarkerRow(r) == r.col_a \in {M_GRAND_TOTAL, M_Grand_Total, L_Total, NaN, <<>>}
NotMarkerRow(r) == ~IsMarkerRow(r)
C5_MarkersIgnored ==
    (Processed /\ SelectSeq(sheet.rows, NotMarkerRow) # <<>>) =>
        melted.rows =
            process_pharma_excel([sheet EXCEPT !.rows = SelectSeq(@, NotMarkerRow)]).rows

\* C8: the sheet Region SOFIA / AERIUS 5MG with Q1 2024 = 10 and Q2 2024 = 15
\* loads as exactly two fact rows, (SOFIA, AERIUS 5MG, Q1 2024, 10) and
\* (SOFIA, AERIUS 5MG, Q2 2024, 15).
Fact(r) == <<r.Region, r.Drug_Name, r.Quarter, r.Units>>
IsScenarioSheet ==
    /\ sheet.header = <<H_Q1, H_Q2>>
    /\ SheetLabels = <<L_RegionSofia, L_Aerius>>
    /\ sheet.rows[2].cells = <<Num(10), Num(15)>>
C8_EndToEnd ==
    (pc = "loaded" /\ IsScenarioSheet) =>
        /\ Len(table) = 2
        /\ Fact(table[1]) = <<T_SOFIA, L_Aerius, H_Q1, Num(10)>>
        /\ Fact(table[2]) = <<T_SOFIA, L_Aerius, H_Q2, Num(15)>>

\* C8 witness: the scenario sheet has been uploaded and loaded.
C8_Witness == pc = "loaded" /\ IsScenarioSheet /\ Len(table) = 2

\* The TherapeuticClass pattern: the first word has 4 to 7 characters, starts
\* with a letter, holds a digit and is upper-case; the label has two words or
\* more, is no aggregate marker and does not start with the Region prefix.
IsClassPattern(x) ==
    LET parts == Split(x)
        first == parts[1]
    IN  /\ Len(parts) >= 2
        /\ Len(first) \in 4..7
        /\ first[1] \in UpperCh \cup LowerCh
        /\ \E i \in 1..Len(first) : first[i] \in DigitCh
        /\ IsUpper(first)
        /\ x \notin {M_GRAND_TOTAL, M_Grand_Total, L_Total}
        /\ ~StartsWith(x, W_Region \o SP)

\* A multi-word upper-case name of letters and digits whose first word has no digit.
IsPlainProductName(x) ==
    LET parts == Split(x)
        first == parts[1]
    IN  /\ Len(parts) >= 2
        /\ IsUpper(x)
        /\ \A i \in 1..Len(x) : x[i] \in UpperCh \cup DigitCh \cup SpaceCh
        /\ \A i \in 1..Len(first) : first[i] \notin DigitCh
        /\ x \notin {M_GRAND_TOTAL, M_Grand_Total, L_Total}

\* C6: the row classifier answers TherapeuticClass (Category) for every label of
\* the class pattern and Product (Drug) for a plain multi-word upper-case name
\* whose first word has no digit.
C6_ClassifyByPattern ==
    pc = "classified" =>
        /\ IsClassPattern(label) => verdict.ingest = "Category"
        /\ IsPlainProductName(label) => verdict.ingest = "Drug"

\* The entity of a long row, and of the row at position i of the sheet.
EntityKey(r) == <<r.Region, r.District, r.Drug_Name>>
KeyAt(i) == EntityKey(fill_hierarchy(sheet.rows)[i])

\* The label a period column has in the long frame.
T_UnitsSuffix == SP \o W_Units
PeriodOf(c) ==
    IF EndsWith(sheet.header[c], T_UnitsSuffix)
    THEN SubSeq(sheet.header[c], 1, Len(sheet.header[c]) - Len(T_UnitsSuffix))
    ELSE sheet.header[c]

\* Pivoting back: the values the long frame holds for an entity and a period.
Pivot(e, p) ==
    {melted.rows[k].Units : k \in {j \in 1..Len(melted.rows) :
                                      /\ EntityKey(melted.rows[j]) = e
                                      /\ melted.rows[j].Quarter = p}}

\* N * M long rows, and the pivot gives back the cell of every entity row and
\* period column.
RoundTrip ==
    /\ Len(melted.rows) = Len(EntityPos) * Len(PeriodCols)
    /\ \A n \in 1..Len(EntityPos), m \in 1..Len(PeriodCols) :
          Pivot(KeyAt(EntityPos[n]), PeriodOf(PeriodCols[m]))
              = {sheet.rows[EntityPos[n]].cells[PeriodCols[m]]}

DistinctEntities ==
    \A n1, n2 \in 1..Len(EntityPos) :
        KeyAt(EntityPos[n1]) = KeyAt(EntityPos[n2]) => n1 = n2
DistinctPeriods ==
    \A m1, m2 \in 1..Len(PeriodCols) :
        PeriodOf(PeriodCols[m1]) = PeriodOf(PeriodCols[m2]) => m1 = m2

\* C7 as claimed: melting N entity rows and M period columns gives N * M long
\* rows and pivoting by (entity, period) gives back the N x M grid.
C7_RoundTripAsClaimed == Processed => RoundTrip

\* C7 amended: the same, for entity rows with pairwise distinct (Region,
\* District, Drug_Name) and period columns whose labels stay pairwise distinct
\* once the trailing " Units" is removed.
C7_RoundTripDistinct == (Processed /\ DistinctEntities /\ DistinctPeriods) => RoundTrip

\* C7 witness: two entity rows and two "... Units" columns melt into four long
\* rows that pivot back to the grid.
C7_Witness ==
    /\ Processed /\ DistinctEntities /\ DistinctPeriods
    /\ sheet.header = <<H_Q1Units, H_Q2Units>>
    /\ SheetLabels = <<L_RegionSofia, L_Category, L_Aerius>>
    /\ Len(melted.rows) = 4
    /\ Pivot(<<L_RegionSofia, NaN, L_Aerius>>, H_Q2) = {Num(Measure(3, 2))}

\* The composite key of a fact row.
FactKey(r) == <<r.Region, r.Drug_Name, r.Source, r.Quarter, r.District, r.Team>>
NoDuplicateKeys(rows) ==
    \A i, j \in 1..Len(rows) : FactKey(rows[i]) = FactKey(rows[j]) => i = j

\* C9: the assembled table, and the master data, hold at most one row per
\* composite key (Region, EntityName, Source, Period, District, Team).
C9_OneRowPerKey == NoDuplicateKeys(table) /\ NoDuplicateKeys(master.rows)

\* The data directory without one file of a team.
WithoutFile(t, n) == [dirs EXCEPT ![t][n] = NoFile]

\* C10: when a team folder holds the same workbook twice (same content, same
\* Source), the loaded table is the one loaded with a single copy.
C10_SameFileTwice ==
    (pc = "loaded" /\ table = load_data(dirs, master)) =>
        \A t \in Folders \ {Root} : \A n1, n2 \in FileNames :
            ( /\ n1 # n2
              /\ dirs[t][n1].exists /\ dirs[t][n2].exists
              /\ dirs[t][n1].sheet = dirs[t][n2].sheet
              /\ extract_source_name(n1) = extract_source_name(n2) )
            => table = load_data(WithoutFile(t, n2), master)

\* C11: every row of the assembled table (the loaded table and the master
\* data) has a numeric Units that is not negative.
C11_UnitsNonNegative ==
    /\ \A k \in 1..Len(table) : table[k].Units.num /\ table[k].Units.v >= 0
    /\ \A k \in 1..Len(master.rows) : master.rows[k].Units.num /\ master.rows[k].Units.v >= 0

\* A segment of consecutive rows of a frame.
IsSegment(part, whole) ==
    \E o \in 0..(Len(whole) - Len(part)) : SubSeq(whole, o + 1, o + Len(part)) = part

\* The table and the master data are the ones of the present data directory.
TableFresh == pc = "loaded" /\ table = load_data(dirs, master)
MasterFresh ==
    /\ pc = "mastered"
    /\ \E o \in GlobOrders(MasterFiles(dirs[Root])) :
          master.rows = create_master_data(dirs[Root], o)

\* The frame a team file gives when loaded alone.
OwnRows(t, n) ==
    prepare_data_for_display(
        Tagged(load_single_excel(n, dirs[t][n].sheet).rows, extract_source_name(n), t))
TeamFiles == {f \in (Folders \ {Root}) \X FileNames :
                 dirs[f[1]][f[2]].exists /\ ~StartsWith(f[2], TEMP_FILE_PREFIX)}
Fails(sh) == ~process_pharma_excel(sh).ok \/ process_pharma_excel(sh).rows = <<>>

GrowthPct(prev, curr) ==
    IF prev # 0 THEN Frac((curr - prev) * 100, prev)
    ELSE IF curr = 0 THEN Flt(0) ELSE Flt(100)

\* C13: the growth every ranking row and every Evolution Index row reports is
\* GrowthPct of the units of the previous (base) and the last (reference) period.
C13_GrowthPct ==
    /\ (report.kind = "rankings" /\ report.ok) =>
          \A k \in 1..Len(report.merged) :
              report.merged[k].Growth =
                  GrowthPct(report.merged[k].Previous_Units, report.merged[k].Last_Units)
    /\ report.kind \in {"ei", "ei_tab"} =>
          \A k \in 1..Len(report.rows) :
              report.rows[k].growth_pct =
                  GrowthPct(report.rows[k].sales_base.n, report.rows[k].sales_ref.n)

\* The units of an entity in a period, summed over the table.
RECURSIVE UnitsUpTo(_, _, _)
UnitsUpTo(i, name, period) ==
    IF i = 0 THEN 0
    ELSE UnitsUpTo(i - 1, name, period)
         + (IF table[i].Drug_Name = name /\ table[i].Quarter = period
            THEN table[i].Units.v ELSE 0)
EntityUnits(name, period) == UnitsUpTo(Len(table), name, period)
BasePeriod == H_Q1
RefPeriod == H_Q2
EntityGrowth(name) == GrowthPct(EntityUnits(name, BasePeriod), EntityUnits(name, RefPeriod))

\* The classes sharing a Source with the entity.
SourcesOf(name) == {table[i].Source : i \in {j \in 1..Len(table) : table[j].Drug_Name = name}}
ClassesSharingSource(name) ==
    {table[i].Drug_Name : i \in {j \in 1..Len(table) :
        IsClassPattern(table[j].Drug_Name) /\ table[j].Source \in SourcesOf(name)}}

EiFormula(g, cg) == FMul(FDiv(FAdd(Flt(100), g), FAdd(Flt(100), cg)), Flt(100))
IsEiReport == report.kind \in {"ei", "ei_tab"}

C15_NoClassNoIndex ==
    IsEiReport =>
        \A k \in 1..Len(report.rows) :
            ClassesSharingSource(report.rows[k].drug) = {} =>
                /\ report.rows[k].ei = None
                /\ report.rows[k].class_growth_pct = None

\* C15 witness: ZYRTEC comes from file B, the only class from file A, and the
\* Evolution Index of ZYRTEC is absent.
C15_Witness ==
    /\ IsEiReport
    /\ Len(report.rows) = 2
    /\ SourcesOf(L_Zyrtec) = {S_B}
    /\ \E i \in 1..Len(table) : table[i].Drug_Name = L_Category /\ table[i].Source = S_A
    /\ report.rows[2].drug = L_Zyrtec
    /\ report.rows[2].ei = None

\* The sums of the portfolio over the reported rows with a defined index.
RECURSIVE PortfolioSums(_, _)
PortfolioSums(rows, i) ==
    IF i = 0 THEN [num |-> Flt(0), den |-> Flt(0)]
    ELSE LET rest == PortfolioSums(rows, i - 1)
         IN  IF rows[i].ei = None THEN rest
             ELSE [num |-> FAdd(rest.num, FMul(rows[i].ei, rows[i].sales_ref)),
                   den |-> FAdd(rest.den, rows[i].sales_ref)]
PortfolioEi(rows) ==
    LET sums == PortfolioSums(rows, Len(rows))
    IN  IF FIsZero(sums.den) THEN None ELSE FDiv(sums.num, sums.den)

\* C16: the portfolio index is the sum of EI * reference units over the sum of
\* reference units, both over the entities with a defined EI, and absent when
\* that denominator is 0.
C16_PortfolioIndex == IsEiReport => report.overall_ei = PortfolioEi(report.rows)

\* C17: every product of the market share table has, in every period, the
\* share 100 * its units / the units of the class sharing its own Source (0 when
\* those are not positive), and every class has the share 100.
C17_MarketShare ==
    report.kind = "share" =>
        \A k \in 1..Len(report.rows) :
            LET r == report.rows[k]
            IN  IF IsClassPattern(r.Drug_Name) THEN r.Market_Share = Flt(100)
                ELSE \A c \in ClassesSharingSource(r.Drug_Name) :
                        (Cardinality(ClassesSharingSource(r.Drug_Name)) = 1
                         /\ Cardinality(SourcesOf(r.Drug_Name)) = 1) =>
                            r.Market_Share =
                                IF EntityUnits(c, r.Quarter) > 0
                                THEN Frac(100 * EntityUnits(r.Drug_Name, r.Quarter),
                                          EntityUnits(c, r.Quarter))
                                ELSE Flt(0)

\* The entities of the two leaderboards, read off the table: the regions of a
\* product and the products (classes excluded), with units in either period.
InPeriods(i) == table[i].Quarter \in {BasePeriod, RefPeriod}
RegionsOfProduct(product) ==
    {table[i].Region : i \in {j \in 1..Len(table) : table[j].Drug_Name = product /\ InPeriods(j)}}
ProductEntities ==
    {table[i].Drug_Name : i \in {j \in 1..Len(table) :
        ~IsClassPattern(table[j].Drug_Name) /\ InPeriods(j)}}
UnitChange(name) == EntityUnits(name, RefPeriod) - EntityUnits(name, BasePeriod)
MinOf(a, b) == IF a < b THEN a ELSE b

RankedRegions == [k \in 1..Len(report.merged) |-> report.merged[k].Region]
IsLeaderboardRun ==
    report.kind = "rankings" /\ table = LeaderboardTable /\ report.product = L_Aerius

RowOrders == {o \in [1..Len(table) -> 1..Len(table)] : \A i, j \in 1..Len(table) : o[i] = o[j] => i = j}
Reordered(o) == [i \in 1..Len(table) |-> table[o[i]]]
SameKey(a, b) == ~FLess(a, b) /\ ~FLess(b, a)

\* C19: entities with equal GrowthPct are ranked in the order of their names,
\* and the ranking is the only one the call can give for the table, whatever
\* the order of the table's rows.
C19_TiesByName ==
    (report.kind = "rankings" /\ report.ok) =>
        /\ \A k \in 1..(Len(report.merged) - 1) :
              SameKey(report.merged[k].Growth, report.merged[k + 1].Growth)
                  => TextLess(report.merged[k].Region, report.merged[k + 1].Region)
        /\ \A o \in RowOrders :
              compute_last_vs_previous_rankings(Reordered(o), report.product, PERIODS) = {report}

\* The rows of a Region, and the portfolio index computed on them alone.
RegionRows(region) == LET inRegion(r) == r.Region = region IN SelectSeq(table, inRegion)
TableRegions == {table[i].Region : i \in 1..Len(table)}
RegionPortfolioEi(region, drugs) ==
    PortfolioEi(compute_ei_rows_and_overall(RegionRows(region), drugs, RefPeriod, BasePeriod).rows)
IsEntryOf(e, region) ==
    \/ e.label = region
    \/ /\ Len(e.label) > Len(region) + 3
       /\ SubSeq(e.label, 1, Len(region) + 3) = region \o <<" ", "|", " ">>
IsBenchmarkReport == report.kind \in {"benchmark", "benchmark_chart"}

\* C20: the regional benchmark has one entry per Region whose portfolio index,
\* computed on that Region's rows alone, is present, with that index as its
\* value, no entry for the other Regions, and the entries ordered by value,
\* non-increasing.
C20_RegionalBenchmark ==
    IsBenchmarkReport =>
        /\ \A region \in TableRegions :
              LET ei == RegionPortfolioEi(region, report.drugs)
                  entries == {k \in 1..Len(report.out) : IsEntryOf(report.out[k], region)}
              IN  IF ei = None THEN entries = {}
                  ELSE /\ Cardinality(entries) = 1
                       /\ \A k \in entries : report.out[k].ei = ei
        /\ \A k \in 1..(Len(report.out) - 1) :
              ~FLess(report.out[k].ei, report.out[k + 1].ei)

\* The entities of a call that the table does not know.
KnownNames == {table[i].Drug_Name : i \in 1..Len(table)}
UnknownAt(k) == report.drugs[k] \notin KnownNames
NoSourceColumn == "Source" \notin report.columns
IsCall(fn) == report.kind = "call" /\ report.fn = fn

\* C21: a metric function called with fewer than two periods, an empty table,
\* an unknown entity or a table without the Source column returns None or an
\* empty result, and no call raises.
C21_InsufficientInput ==
    /\ report.kind = "call" => ~report.out.raised
    /\ (IsCall("rankings")
          /\ (Len(report.periods) < 2 \/ table = <<>> \/ UnknownAt(1)))
          => ~report.out.value.ok /\ report.out.value.merged = <<>>
    /\ IsCall("ei") =>
          /\ \A k \in 1..Len(report.out.value.rows) :
                (table = <<>> \/ UnknownAt(k)) => report.out.value.rows[k].ei = None
          /\ NoSourceColumn => report.out.value.rows = <<>>
          /\ (table = <<>> \/ NoSourceColumn \/ \A k \in 1..Len(report.drugs) : UnknownAt(k))
                => report.out.value.overall_ei = None
    /\ (IsCall("benchmark")
          /\ (table = <<>> \/ NoSourceColumn \/ \A k \in 1..Len(report.drugs) : UnknownAt(k)))
          => report.out.value = <<>>

\* C21 witness: the rankings were asked for with one period on a table that
\* has rows of the product, and None came back.
C21_Witness ==
    /\ IsCall("rankings")
    /\ report.periods = <<H_Q2>>
    /\ report.drugs = <<L_Aerius>>
    /\ L_Aerius \in KnownNames
    /\ ~report.out.raised /\ ~report.out.value.ok

\* A period text whose first word is a quarter Q1..Q4 or a month Jan..Dec.
FirstWordOf(p) == IF Split(p) = <<>> THEN <<>> ELSE Split(p)[1]
IsQuarterWord(w) == Len(w) = 2 /\ w[1] = "Q" /\ w[2] \in {"1", "2", "3", "4"}
IsMonthWord(w) == \E m \in 1..Len(MONTH_NAMES) : MONTH_NAMES[m] = w
Recognized(p) == IsQuarterWord(FirstWordOf(p)) \/ IsMonthWord(FirstWordOf(p))
TablePeriods == {table[i].Quarter : i \in 1..Len(table)}

\* C22: the sort key of a period whose first word is neither a quarter nor a
\* month is (0, 0), and in the sorted periods every such period comes before
\* every recognized one.
C22_UnrecognizedFirst ==
    /\ (report.kind = "sort_key" /\ ~Recognized(report.period)) => report.key = <<0, 0>>
    /\ report.kind = "periods" =>
          \A i, j \in 1..Len(report.out) :
              (Recognized(report.out[i]) /\ ~Recognized(report.out[j])) => j < i

\* C23: the sorted periods are the distinct periods of the table, each once,
\* in the order of their keys, and no two distinct recognized periods have
\* the same key.
C23_SortedPeriods ==
    report.kind = "periods" =>
        /\ {report.out[k] : k \in 1..Len(report.out)} = TablePeriods
        /\ Len(report.out) = Cardinality(TablePeriods)
        /\ \A k \in 1..(Len(report.out) - 1) :
              ~KeyLess(get_period_sort_key(report.out[k + 1]), get_period_sort_key(report.out[k]))
        /\ \A p, q \in TablePeriods :
              (Recognized(p) /\ Recognized(q) /\ p # q)
                  => get_period_sort_key(p) # get_period_sort_key(q)

\* A header that is a quarter token Q1..Q4 followed by a whitelisted year, and
\* one that is a month abbreviation followed by a year.
WordAt(h, k) == IF Len(Split(h)) >= k THEN Split(h)[k] ELSE <<>>
IsQuarterHeader(h) ==
    /\ IsQuarterWord(WordAt(h, 1))
    /\ \E y \in 1..Len(VALID_YEARS) : WordAt(h, 2) = VALID_YEARS[y]
IsMonthHeader(h) == IsMonthWord(WordAt(h, 1)) /\ IsDigits(WordAt(h, 2))
HeaderPositions == Positions(Len(sheet.header))
QuarterPositions ==
    LET isQ(i) == IsQuarterHeader(sheet.header[i]) IN SelectSeq(HeaderPositions, isQ)
MonthPositions ==
    LET isM(i) == IsMonthHeader(sheet.header[i]) IN SelectSeq(HeaderPositions, isM)
FollowingPositions ==
    LET first(i) == i <= FallbackColumns IN SelectSeq(HeaderPositions, first)

\* C24: the period columns are the quarter columns, and only those, when
\* there is one; otherwise the month-plus-year columns, and only those, when
\* there is one; otherwise the FallbackColumns columns that follow the label
\* column; and the detection does not fail when a column follows the label
\* column.
C24_DetectPeriodColumns ==
    report.kind = "period_cols" =>
        /\ report.cols = IF QuarterPositions # <<>> THEN QuarterPositions
                         ELSE IF MonthPositions # <<>> THEN MonthPositions
                         ELSE FollowingPositions
        /\ sheet.header # <<>> => ~report.raised

\* The sheet has a District row.
HasDistrictRow == \E i \in 1..Len(sheet.rows) : is_district(SheetColA[i])

\* C25: when the sheet has a District row, every emitted row carries a
\* District.
C25_DistrictPresent ==
    (Processed /\ melted.ok /\ HasDistrictRow) =>
        \A k \in 1..Len(melted.rows) : melted.rows[k].District # NaN

\* The snapshots a load had at hand: the cached tables and the persisted one.
SnapshotsBefore ==
    LET b == store.last.before
    IN  {e.snap : e \in {x \in {b.data, b.excel, b.parquet} : x.valid}}
NewerThan(snap) ==
    \E f \in SourceFiles : store.last.before.mtime[f] > snap.built
IsLoad == store.kind = "cache" /\ store.last.loaded

\* C26: when some source file was modified after the build time of a cached
\* or persisted snapshot, the load returns the table rebuilt from the source
\* files as they are.
C26_StaleSnapshotRebuilt ==
    (IsLoad /\ \E snap \in SnapshotsBefore : NewerThan(snap))
        => store.last.value.sources = store.last.before.mtime

IsVisitStore == store.kind = "visits"
SameVisit(i, j) ==
    store.log[i].timestamp = store.log[j].timestamp /\ store.log[i].key = store.log[j].key

C28_SameGrowth ==
    report.kind = "growth" =>
        \A site \in GrowthSites :
            report.value = growth_at(site, report.prev, report.curr)

NonNegativeUnits == \A i \in 1..Len(table) : table[i].Units.v >= 0
IsFinite(x) == x.k = "num"

\* C29: with no negative units in the table, every Evolution Index that is
\* reported (a matching class was found) is a finite number, and the
\* denominator 100 + ClassGrowthPct is not 0.
C29_FiniteIndex ==
    (IsEiReport /\ NonNegativeUnits) =>
        \A k \in 1..Len(report.rows) :
            report.rows[k].class_growth_pct # None =>
                /\ IsFinite(report.rows[k].ei)
                /\ ~FIsZero(FAdd(Flt(100), report.rows[k].class_growth_pct))

RECURSIVE SumOver(_, _)
SumOver(f, S) ==
    IF S = {} THEN 0
    ELSE LET x == CHOOSE y \in S : TRUE IN f[x] + SumOver(f, S \ {x})

\* C30: get_analytics called right after reset_analytics reports 0 visits for
\* every team and a total of 0, and whatever get_analytics reports has a total
\* equal to the sum of the counts of the teams.
C30_ResetZeroes ==
    report.kind = "analytics" =>
        /\ report.after = "reset" =>
              /\ \A t \in DOMAIN report.out.visits : report.out.visits[t] = 0
              /\ report.out.total = 0
        /\ report.out.total = SumOver(report.out.visits, DOMAIN report.out.visits)

====
